---- MODULE Spec2Model ----
(***************************************************************************)
(* Model of wiki_bot's synchronization and reconciliation core:            *)
(*   - GitRepositoryManager (prepare / status / clone / update / commit /  *)
(*     push / clean) over one local checkout and one remote,               *)
(*   - GitHubWikiWriter.writeDocumentation, step by step,                  *)
(*   - WikiGenerator's page reconciliation (fence unwrap, heading          *)
(*     normalization, validation, fallback), over character sequences.     *)
(***************************************************************************)
EXTENDS Integers, Sequences, FiniteSets, TLC

(***************************************************************************)
(* Bounds                                                                  *)
(***************************************************************************)
\* commits that may ever be created (locally or by another writer of the remote)
MaxCommits == 2
\* distinct contents a file may hold (0 is "file absent")
MaxVal == 1
\* deepest heading level and most body lines of a generated response
MaxLevel == 2
MaxBodyLines == 2
\* most pages of one run
MaxPages == 3
\* most subsections of an architecture page handed to outline enforcement
MaxSections == 2
\* most architectural areas of one run
MaxAreas == 2

(***************************************************************************)
(* Repository model: trees, commits, logs                                  *)
(***************************************************************************)
Modes == {"fresh", "incremental", "reuse-or-clone"}
Branches == {"master", "dev"}
\* GitRepositoryManager._branch (options.branch ?? 'master')
TargetBranch == "master"

PageFile == "Home.md"
SidebarFile == "_Sidebar.md"
Paths == {PageFile, SidebarFile}
Vals == 0..MaxVal

EmptyTree == [p \in Paths |-> 0]
NoHeads == [b \in Branches |-> <<>>]
NoRef == [has |-> FALSE, log |-> <<>>]

Last(log) == log[Len(log)]
TreeOf(log) == IF log = <<>> THEN EmptyTree ELSE Last(log).tree
Ids(log) == {log[i].id : i \in 1..Len(log)}
IsPrefix(a, b) == Len(a) <= Len(b) /\ \A i \in 1..Len(a) : a[i] = b[i]

\* the local path without a .git directory
Absent ==
  [exists |-> FALSE, branch |-> "", heads |-> NoHeads, origin |-> NoRef,
   index |-> EmptyTree, wt |-> EmptyTree]

HeadLog(l) == IF l.branch \in Branches THEN l.heads[l.branch] ELSE <<>>
HeadTree(l) == TreeOf(HeadLog(l))

\* lines of `git status --porcelain`: one per path that differs from HEAD
Porcelain(l) == {p \in Paths : l.index[p] # HeadTree(l)[p] \/ l.wt[p] # l.index[p]}

(***************************************************************************)
(* Command arguments and error messages                                    *)
(***************************************************************************)
GitCmds ==
  {"rev-parse", "status", "rev-list", "clone", "fetch", "checkout", "reset",
   "add", "commit", "push"}

\* what the underlying execFile error text carries besides the exit status:
\*   "plain"   nothing of interest
\*   "echo"    the command line as it was executed (raw arguments)
\*   "url"     the remote URL git was talking to
\*   "nothing" git's "nothing to commit" report
ErrTexts == {"plain", "echo", "url", "nothing"}

NoFail == [cmd |-> "none", text |-> "plain"]
\* every command may fail plainly; the commands that talk to the remote may
\* cite its URL; clone, the one command given a URL, may have it echoed.
\* git itself reports "nothing to commit" exactly when the index equals HEAD
\* (gitCommit): it exits with status 1 and writes the report to its standard
\* output. The rejection of execFile carries "Command failed: <command line>"
\* and the standard error output only, so the report is no part of the text.
Failures ==
  {NoFail} \cup [cmd : GitCmds, text : {"plain"}]
    \cup [cmd : {"clone", "fetch", "push"}, text : {"url"}]
    \cup {[cmd |-> "clone", text |-> "echo"]}

Word(x) == [kind |-> "word", v |-> x, cred |-> FALSE]
UrlArg(c) == [kind |-> "url", v |-> "remote", cred |-> c]
Redacted == Word("<redacted-url>")

\* arg.includes('://')
IncludesScheme(arg) == arg.kind = "url"

SeqToSet(q) == {q[i] : i \in 1..Len(q)}

sanitizeGitArgs(args) ==
  [i \in 1..Len(args) |-> IF IncludesScheme(args[i]) THEN Redacted ELSE args[i]]

\* this._token set, remote URL is http(s): username/password are put in the URL
buildAuthUrl(cfg) == IF ~cfg.token THEN UrlArg(FALSE) ELSE UrlArg(TRUE)

\* the URL git stored as remote "origin" when the checkout was cloned
StoredUrl(cfg) == buildAuthUrl(cfg)

\* text of the error execFile rejected with
Underlying(cfg, args, text) ==
  CASE text = "echo" -> SeqToSet(args)
    [] text = "url" -> {StoredUrl(cfg)}
    [] text = "nothing" -> {Word("nothing to commit")}
    [] OTHER -> {}

NoErr == [kind |-> "none", paths |-> {}, cmd |-> "none", msg |-> {}]

\* runGit's catch block: `git ${commandText} failed: ${error.message}`
GitError(cfg, cmd, args, sanitize, text) ==
  [kind |-> "git", paths |-> {}, cmd |-> cmd,
   msg |-> SeqToSet(IF sanitize THEN sanitizeGitArgs(args) ELSE args)
             \cup Underlying(cfg, args, text)]

\* update()'s refusal: "Cannot update: repository has uncommitted changes:\n..."
Blocked(paths) ==
  [kind |-> "BlockedByLocalChanges", paths |-> paths, cmd |-> "none", msg |-> {}]

CloneArgs(cfg) ==
  <<Word("clone"), Word("--branch"), Word(TargetBranch), buildAuthUrl(cfg),
    Word("localPath")>>
FetchArgs == <<Word("fetch"), Word("origin")>>
CheckoutArgs == <<Word("checkout"), Word(TargetBranch)>>
ResetArgs == <<Word("reset"), Word("--hard"), Word("origin/branch")>>
AddArgs == <<Word("add"), Word(".")>>
CommitArgs == <<Word("commit"), Word("-m"), Word("message")>>
PushArgs == <<Word("push"), Word("origin"), Word("HEAD:branch")>>
RevParseArgs == <<Word("rev-parse"), Word("--abbrev-ref"), Word("HEAD")>>
PorcelainArgs == <<Word("status"), Word("--porcelain")>>

(***************************************************************************)
(* The git commands the manager runs.  s = [repo, remote, nextId] is the   *)
(* local checkout, the remote's target branch and the next commit id.      *)
(* f names the command that fails for an outside reason (network, lock,    *)
(* hook, missing identity) and the text its error carries.                 *)
(***************************************************************************)
Out(ok, s, err) == [ok |-> ok, s |-> s, err |-> err]

\* git clone --branch <branch> <url> <localPath>
gitClone(cfg, s, f) ==
  IF f.cmd = "clone" \/ s.repo.exists
    THEN Out(FALSE, s, GitError(cfg, "clone", CloneArgs(cfg), TRUE,
                                IF f.cmd = "clone" THEN f.text ELSE "plain"))
    ELSE Out(TRUE,
             [s EXCEPT !.repo =
                [exists |-> TRUE, branch |-> TargetBranch,
                 heads |-> [NoHeads EXCEPT ![TargetBranch] = s.remote],
                 origin |-> [has |-> TRUE, log |-> s.remote],
                 index |-> TreeOf(s.remote), wt |-> TreeOf(s.remote)]],
             NoErr)

\* git fetch origin
gitFetch(cfg, s, f) ==
  IF f.cmd = "fetch" \/ ~s.repo.exists
    THEN Out(FALSE, s, GitError(cfg, "fetch", FetchArgs, FALSE,
                                IF f.cmd = "fetch" THEN f.text ELSE "plain"))
    ELSE Out(TRUE, [s EXCEPT !.repo.origin = [has |-> TRUE, log |-> s.remote]], NoErr)

\* git checkout <branch>: the local branch, or a new one tracking origin/<branch>.
\* The model keeps the refs some operation reads, HEAD and the target branch:
\* the branch that is left is dropped from it.
gitCheckout(cfg, s, f) ==
  LET l == s.repo
      target == IF l.heads[TargetBranch] # <<>> THEN l.heads[TargetBranch]
                ELSE l.origin.log
  IN IF f.cmd = "checkout" \/ ~l.exists \/ (l.heads[TargetBranch] = <<>> /\ ~l.origin.has)
       THEN Out(FALSE, s, GitError(cfg, "checkout", CheckoutArgs, FALSE,
                                   IF f.cmd = "checkout" THEN f.text ELSE "plain"))
       ELSE Out(TRUE,
                [s EXCEPT !.repo.branch = TargetBranch,
                          !.repo.heads = [NoHeads EXCEPT ![TargetBranch] = target],
                          !.repo.index = TreeOf(target),
                          !.repo.wt = TreeOf(target)],
                NoErr)

\* git reset --hard origin/<branch>
gitReset(cfg, s, f) ==
  LET l == s.repo IN
  IF f.cmd = "reset" \/ ~l.exists \/ ~l.origin.has \/ l.branch \notin Branches
    THEN Out(FALSE, s, GitError(cfg, "reset", ResetArgs, FALSE,
                                IF f.cmd = "reset" THEN f.text ELSE "plain"))
    ELSE Out(TRUE,
             [s EXCEPT !.repo.heads[l.branch] = l.origin.log,
                       !.repo.index = TreeOf(l.origin.log),
                       !.repo.wt = TreeOf(l.origin.log)],
             NoErr)

\* git add .
gitAdd(cfg, s, f) ==
  IF f.cmd = "add" \/ ~s.repo.exists
    THEN Out(FALSE, s, GitError(cfg, "add", AddArgs, FALSE,
                                IF f.cmd = "add" THEN f.text ELSE "plain"))
    ELSE Out(TRUE, [s EXCEPT !.repo.index = s.repo.wt], NoErr)

\* git commit -m <message>: refuses when the index equals HEAD's tree
gitCommit(cfg, s, f) ==
  LET l == s.repo
      c == [id |-> s.nextId, tree |-> l.index]
  IN IF f.cmd = "commit" \/ ~l.exists \/ l.branch \notin Branches
          \/ l.index = HeadTree(l)
       THEN Out(FALSE, s, GitError(cfg, "commit", CommitArgs, FALSE,
                                   IF f.cmd = "commit" THEN f.text ELSE "plain"))
       ELSE Out(TRUE,
                [s EXCEPT !.repo.heads[l.branch] = Append(HeadLog(l), c),
                          !.nextId = s.nextId + 1],
                NoErr)

\* git push origin HEAD:<branch>: rejected unless it fast-forwards the remote
gitPush(cfg, s, f) ==
  LET l == s.repo IN
  IF f.cmd = "push" \/ ~l.exists \/ ~IsPrefix(s.remote, HeadLog(l))
    THEN Out(FALSE, s, GitError(cfg, "push", PushArgs, TRUE,
                                IF f.cmd = "push" THEN f.text ELSE "plain"))
    ELSE Out(TRUE,
             [s EXCEPT !.remote = HeadLog(l),
                       !.repo.origin = [has |-> TRUE, log |-> HeadLog(l)]],
             NoErr)

(***************************************************************************)
(* GitRepositoryManager                                                    *)
(***************************************************************************)
\* what an operation hands back: the world after it, the error it threw (or
\* NoErr), its boolean result, the commands it started, the status it read
Res(s, err, ret, cmds, st) ==
  [s |-> s, err |-> err, ret |-> ret, cmds |-> cmds, st |-> st]

\* JavaScript's undefined, for a destructured element that is not there
Undefined == -1

DegenerateStatus ==
  [exists |-> FALSE, clean |-> TRUE, branch |-> "", ahead |-> 0, behind |-> 0,
   uncommittedChanges |-> {}]

\* existsSync(join(localPath, '.git'))
exists(s) == s.repo.exists

\* stdout of `git rev-list --left-right --count origin/<branch>...HEAD`,
\* trimmed, split on tab, each piece parseInt(..) || 0; '' when it failed
TrackingCounts(s, f) ==
  LET l == s.repo IN
  IF f.cmd = "rev-list" \/ ~l.origin.has
    THEN <<0>>
    ELSE <<Cardinality(Ids(l.origin.log) \ Ids(HeadLog(l))),
           Cardinality(Ids(HeadLog(l)) \ Ids(l.origin.log))>>

StatusCmds == <<"rev-parse", "status", "rev-list">>

status(cfg, s, f) ==
  IF ~exists(s) THEN Res(s, NoErr, FALSE, <<>>, DegenerateStatus)
  ELSE IF f.cmd = "rev-parse"
    THEN Res(s, GitError(cfg, "rev-parse", RevParseArgs, FALSE, f.text), FALSE,
             StatusCmds, DegenerateStatus)
  ELSE IF f.cmd = "status"
    THEN Res(s, GitError(cfg, "status", PorcelainArgs, FALSE, f.text), FALSE,
             StatusCmds, DegenerateStatus)
  ELSE LET counts == TrackingCounts(s, f)
           changes == Porcelain(s.repo)
       IN Res(s, NoErr, FALSE, StatusCmds,
              [exists |-> TRUE,
               clean |-> changes = {},
               branch |-> s.repo.branch,
               ahead |-> IF Len(counts) >= 2 THEN counts[2] ELSE Undefined,
               behind |-> counts[1],
               uncommittedChanges |-> changes])

clone(cfg, s, f) ==
  LET c == gitClone(cfg, s, f) IN
  Res(c.s, c.err, FALSE, <<"clone">>, DegenerateStatus)

update_unchecked(cfg, s, f) ==
  LET st == status(cfg, s, f) IN
  IF st.err.kind # "none" THEN st
  ELSE
    LET a == gitFetch(cfg, s, f)
        needCheckout == st.st.branch # TargetBranch
        b == IF needCheckout THEN gitCheckout(cfg, a.s, f) ELSE a
        c == gitReset(cfg, b.s, f)
        c1 == st.cmds \o <<"fetch">>
        c2 == c1 \o (IF needCheckout THEN <<"checkout">> ELSE <<>>)
    IN IF ~a.ok THEN Res(a.s, a.err, FALSE, c1, st.st)
       ELSE IF ~b.ok THEN Res(b.s, b.err, FALSE, c2, st.st)
       ELSE Res(c.s, c.err, FALSE, c2 \o <<"reset">>, st.st)

\* update that resets whatever branch is checked out
update_staysOnBranch(cfg, s, f) ==
  LET st == status(cfg, s, f) IN
  IF st.err.kind # "none" THEN st
  ELSE IF ~st.st.clean
    THEN Res(s, Blocked(st.st.uncommittedChanges), FALSE, st.cmds, st.st)
  ELSE
    LET a == gitFetch(cfg, s, f)
        c == gitReset(cfg, a.s, f)
        c1 == st.cmds \o <<"fetch">>
    IN IF ~a.ok THEN Res(a.s, a.err, FALSE, c1, st.st)
       ELSE Res(c.s, c.err, FALSE, c1 \o <<"reset">>, st.st)

\* an update() that resets only a branch with no commit of its own
update_keepsLocalCommits(cfg, s, f) ==
  LET st == status(cfg, s, f) IN
  IF st.err.kind # "none" THEN st
  ELSE IF ~st.st.clean
    THEN Res(s, Blocked(st.st.uncommittedChanges), FALSE, st.cmds, st.st)
  ELSE
    LET a == gitFetch(cfg, s, f)
        needCheckout == st.st.branch # TargetBranch
        b == IF needCheckout THEN gitCheckout(cfg, a.s, f) ELSE a
        c == IF st.st.ahead > 0 THEN b ELSE gitReset(cfg, b.s, f)
        c1 == st.cmds \o <<"fetch">>
        c2 == c1 \o (IF needCheckout THEN <<"checkout">> ELSE <<>>)
    IN IF ~a.ok THEN Res(a.s, a.err, FALSE, c1, st.st)
       ELSE IF ~b.ok THEN Res(b.s, b.err, FALSE, c2, st.st)
       ELSE Res(c.s, c.err, FALSE, c2 \o <<"reset">>, st.st)

update(cfg, s, f) ==
  LET st == status(cfg, s, f) IN
  IF st.err.kind # "none" THEN st
  ELSE IF ~st.st.clean
    THEN Res(s, Blocked(st.st.uncommittedChanges), FALSE, st.cmds, st.st)
  ELSE
    LET a == gitFetch(cfg, s, f)
        needCheckout == st.st.branch # TargetBranch
        b == IF needCheckout THEN gitCheckout(cfg, a.s, f) ELSE a
        c == gitReset(cfg, b.s, f)
        c1 == st.cmds \o <<"fetch">>
        c2 == c1 \o (IF needCheckout THEN <<"checkout">> ELSE <<>>)
    IN IF ~a.ok THEN Res(a.s, a.err, FALSE, c1, st.st)
       ELSE IF ~b.ok THEN Res(b.s, b.err, FALSE, c2, st.st)
       ELSE Res(c.s, c.err, FALSE, c2 \o <<"reset">>, st.st)

\* errorMsg.includes('nothing to commit')
IncludesNothingToCommit(err) == Word("nothing to commit") \in err.msg

\* commit that returns true whenever the commit step was reached
commit_alwaysTrue(cfg, s, f) ==
  LET st == status(cfg, s, f) IN
  IF st.err.kind # "none" THEN st
  ELSE
    LET a == gitAdd(cfg, s, f)
        c == gitCommit(cfg, a.s, f)
        c1 == st.cmds \o <<"add">>
        c2 == c1 \o <<"commit">>
    IN IF ~a.ok THEN Res(a.s, a.err, FALSE, c1, st.st)
       ELSE Res(c.s, NoErr, TRUE, c2, st.st)

commit(cfg, s, f) ==
  LET st == status(cfg, s, f) IN
  IF st.err.kind # "none" THEN st
  ELSE IF st.st.clean THEN Res(s, NoErr, FALSE, st.cmds, st.st)
  ELSE
    LET a == gitAdd(cfg, s, f)
        c == gitCommit(cfg, a.s, f)
        c1 == st.cmds \o <<"add">>
        c2 == c1 \o <<"commit">>
    IN IF ~a.ok THEN Res(a.s, a.err, FALSE, c1, st.st)
       ELSE IF c.ok THEN Res(c.s, NoErr, TRUE, c2, st.st)
       ELSE IF IncludesNothingToCommit(c.err) THEN Res(c.s, NoErr, FALSE, c2, st.st)
       ELSE Res(c.s, c.err, FALSE, c2, st.st)

\* a push() that first stages and commits whatever is pending
push_commitsPending(cfg, s, f) ==
  LET a == gitAdd(cfg, s, f)
      c == gitCommit(cfg, a.s, f)
      p == gitPush(cfg, IF a.ok /\ c.ok THEN c.s ELSE s, f)
  IN Res(p.s, p.err, FALSE, <<"push">>, DegenerateStatus)

push(cfg, s, f) ==
  LET p == gitPush(cfg, s, f) IN
  Res(p.s, p.err, FALSE, <<"push">>, DegenerateStatus)

\* rm(localPath, { recursive: true, force: true }) when the checkout exists
clean(cfg, s) ==
  IF exists(s)
    THEN Res([s EXCEPT !.repo = Absent], NoErr, FALSE, <<"rm">>, DegenerateStatus)
    ELSE Res(s, NoErr, FALSE, <<>>, DegenerateStatus)

\* every mode treated as fresh
prepare_alwaysFresh(cfg, s, f) ==
  LET d == IF exists(s) THEN clean(cfg, s)
                 ELSE Res(s, NoErr, FALSE, <<>>, DegenerateStatus)
      c == clone(cfg, d.s, f)
  IN Res(c.s, c.err, FALSE, d.cmds \o c.cmds, DegenerateStatus)

\* reuse-or-clone that forgets to clone
prepare_reuseNeverClones(cfg, s, f) ==
  LET ex == exists(s) IN
  CASE cfg.mode = "fresh" ->
         LET d == IF ex THEN clean(cfg, s)
                        ELSE Res(s, NoErr, FALSE, <<>>, DegenerateStatus)
             c == clone(cfg, d.s, f)
         IN Res(c.s, c.err, FALSE, d.cmds \o c.cmds, DegenerateStatus)
    [] cfg.mode = "incremental" ->
         IF ex THEN update(cfg, s, f) ELSE clone(cfg, s, f)
    [] cfg.mode = "reuse-or-clone" ->
         Res(s, NoErr, FALSE, <<>>, DegenerateStatus)

\* fresh that clones over the checkout without deleting it first
prepare_freshKeepsCheckout(cfg, s, f) ==
  LET ex == exists(s) IN
  CASE cfg.mode = "fresh" ->
         IF ex THEN Res(s, NoErr, FALSE, <<>>, DegenerateStatus)
         ELSE clone(cfg, s, f)
    [] cfg.mode = "incremental" ->
         IF ex THEN update(cfg, s, f) ELSE clone(cfg, s, f)
    [] cfg.mode = "reuse-or-clone" ->
         IF ~ex THEN clone(cfg, s, f)
         ELSE Res(s, NoErr, FALSE, <<>>, DegenerateStatus)

\* reuse-or-clone that refreshes an existing checkout like incremental does
prepare_reuseUpdates(cfg, s, f) ==
  IF cfg.mode = "fresh"
    THEN prepare_alwaysFresh(cfg, s, f)
    ELSE IF exists(s) THEN update(cfg, s, f) ELSE clone(cfg, s, f)

prepare(cfg, s, f) ==
  LET ex == exists(s) IN
  CASE cfg.mode = "fresh" ->
         LET d == IF ex THEN clean(cfg, s)
                        ELSE Res(s, NoErr, FALSE, <<>>, DegenerateStatus)
             c == clone(cfg, d.s, f)
         IN Res(c.s, c.err, FALSE, d.cmds \o c.cmds, DegenerateStatus)
    [] cfg.mode = "incremental" ->
         IF ex THEN update(cfg, s, f) ELSE clone(cfg, s, f)
    [] cfg.mode = "reuse-or-clone" ->
         IF ~ex THEN clone(cfg, s, f)
         ELSE Res(s, NoErr, FALSE, <<>>, DegenerateStatus)

(***************************************************************************)
(* WikiGenerator: page text.  A text is a sequence of tokens: "#", " ",    *)
(* "\n" and the fence of three backquotes are the markup tokens, every other token is a  *)
(* word (a run of characters holding none of them).                        *)
(***************************************************************************)
NL == "\n"
SP == " "
HASH == "#"
\* the three backquotes that open or close a fenced block
FENCE == "<fence>"

IsWs(t) == t \in {SP, NL}
IsWord(t) == t \notin {SP, NL, HASH, FENCE}

Min(S) == CHOOSE x \in S : \A y \in S : x <= y
Max(S) == CHOOSE x \in S : \A y \in S : x >= y

\* String.prototype.slice(i) and slice(i, j), positions counted from 1
From(s, i) == SubSeq(s, i, Len(s))

RECURSIVE TrimStart(_)
TrimStart(s) == IF s # <<>> /\ IsWs(Head(s)) THEN TrimStart(Tail(s)) ELSE s

RECURSIVE TrimEnd(_)
TrimEnd(s) ==
  IF s # <<>> /\ IsWs(s[Len(s)]) THEN TrimEnd(SubSeq(s, 1, Len(s) - 1)) ELSE s

\* String.prototype.trim
Trim(s) == TrimEnd(TrimStart(s))

\* indexOf(t, from): 0 where JavaScript answers -1
IndexOf(s, t, from) ==
  LET I == {i \in from..Len(s) : s[i] = t} IN IF I = {} THEN 0 ELSE Min(I)

LastIndexOf(s, t) ==
  LET I == {i \in 1..Len(s) : s[i] = t} IN IF I = {} THEN 0 ELSE Max(I)

\* split(/\r?\n/)
RECURSIVE SplitLines(_)
SplitLines(s) ==
  LET i == IndexOf(s, NL, 1) IN
  IF i = 0 THEN <<s>>
  ELSE <<SubSeq(s, 1, i - 1)>> \o SplitLines(From(s, i + 1))

\* lines.join('\n')
RECURSIVE JoinLines(_)
JoinLines(ls) ==
  IF ls = <<>> THEN <<>>
  ELSE IF Len(ls) = 1 THEN ls[1]
  ELSE ls[1] \o <<NL>> \o JoinLines(Tail(ls))

\* toLowerCase, on the words that have capitals
ToLower(t) ==
  CASE t = "Home" -> "home"
    [] t = "Architecture" -> "architecture"
    [] t = "Auth" -> "auth"
    [] t = "Overview" -> "overview"
    [] t = "Sure" -> "sure"
    [] t = "Login" -> "login"
    [] t = "Body" -> "body"
    [] t = "Flow" -> "flow"
    [] t = "TD" -> "td"
    [] OTHER -> t

Lower(s) == [i \in DOMAIN s |-> ToLower(s[i])]

\* replace(/\s+/g, ' ')
RECURSIVE Collapse(_)
Collapse(s) ==
  IF s = <<>> THEN <<>>
  ELSE IF IsWs(Head(s)) THEN <<SP>> \o Collapse(TrimStart(s))
  ELSE <<Head(s)>> \o Collapse(Tail(s))

\* s[i..j] is whitespace only
AllWs(s, i, j) == \A k \in i..j : IsWs(s[k])

\* the position of the first token at or after i that is not whitespace, 0 if none
SkipWs(s, i) ==
  LET I == {k \in i..Len(s) : ~IsWs(s[k])} IN IF I = {} THEN 0 ELSE Min(I)

\* ^ under the m flag: position p starts a line
LineStart(s, p) == p = 1 \/ (p > 1 /\ s[p - 1] = NL)

\* the words of the text that are not of the class [a-zA-Z0-9+-]
NonTagWords == {"i've", "Unable to generate home page.",
                "Unable to generate architectural overview.",
                "Unable to generate documentation for this area."}

\* /^[a-zA-Z0-9+-]*$/.test(language)
IsLanguageTag(language) ==
  \A i \in DOMAIN language : IsWord(language[i]) /\ language[i] \notin NonTagWords

\* content.search(/(^|\n)\s*#/): the position where the match starts, 0 if none
HeadingSearch(content) ==
  LET hashNext(i) == SkipWs(content, i) # 0 /\ content[SkipWs(content, i)] = HASH
      I == {i \in 1..Len(content) :
              \/ i = 1 /\ hashNext(1)
              \/ content[i] = NL /\ hashNext(i + 1)}
  IN IF I = {} THEN 0 ELSE Min(I)

stripLeadingCommentary(content) ==
  LET headingIndex == HeadingSearch(content) IN
  IF headingIndex > 1
    THEN LET normalizedHeadingIndex == IndexOf(content, HASH, headingIndex) IN
         IF normalizedHeadingIndex # 0
           THEN Trim(From(content, normalizedHeadingIndex))
           ELSE content
    ELSE content

stripFenceWrappers(content) ==
  LET trimmed == Trim(content)
      firstFence == IndexOf(trimmed, FENCE, 1)
  IN IF firstFence = 1
       THEN LET afterFence == From(trimmed, 2)
                newlineIndex == IndexOf(afterFence, NL, 1)
                language == Trim(SubSeq(afterFence, 1, newlineIndex - 1))
                start == IF newlineIndex # 0 /\ IsLanguageTag(language)
                           THEN newlineIndex + 2
                           ELSE 2
                closingFence == LastIndexOf(trimmed, FENCE)
                inner == Trim(SubSeq(trimmed, start, closingFence - 1))
            IN IF closingFence > start /\ inner # <<>>
                 THEN stripLeadingCommentary(inner)
                 ELSE stripLeadingCommentary(trimmed)
       ELSE stripLeadingCommentary(trimmed)

\* the number of "#" a line starts with
RECURSIVE Hashes(_)
Hashes(line) ==
  IF line # <<>> /\ Head(line) = HASH THEN 1 + Hashes(Tail(line)) ELSE 0

\* line.match(/^(#+)\s+(.*)$/)
IsHeading(line) ==
  /\ Hashes(line) >= 1
  /\ Len(line) > Hashes(line)
  /\ IsWs(line[Hashes(line) + 1])

\* the second group of the match
HeadingText(line) == TrimStart(From(line, Hashes(line) + 1))

Heading(level, text) == [i \in 1..level |-> HASH] \o <<SP>> \o text

ensureHeading(content, title) ==
  LET trimmed == Trim(content) IN
  IF trimmed = <<>> THEN Heading(1, title)
  ELSE
    LET normalizedTitle == Lower(Collapse(Trim(title)))
        lines == SplitLines(trimmed)
        firstLine == Trim(lines[1])
    IN IF IsHeading(firstLine)
         THEN LET text == HeadingText(firstLine)
                  normalizedHeading == Lower(Collapse(Trim(text)))
              IN IF normalizedHeading = normalizedTitle
                   THEN trimmed
                   ELSE Trim(Heading(1, title) \o <<NL, NL>>
                               \o JoinLines([lines EXCEPT ![1] = Heading(2, Trim(text))]))
         ELSE Heading(1, title) \o <<NL, NL>> \o trimmed

hasMeaningfulBody(content, title) ==
  LET trimmed == Trim(content) IN
  IF trimmed = <<>> THEN FALSE
  ELSE
    LET lines == SplitLines(trimmed)
        bodyStart ==
          IF /\ IsHeading(lines[1])
             /\ Lower(Trim(HeadingText(lines[1]))) = Lower(Trim(title))
            THEN 2 ELSE 1
    IN \E index \in bodyStart..Len(lines) : Trim(lines[index]) # <<>>

\* trimmed.split(/\r?\n\s*\r?\n/, 1)[0]
FirstParagraph(trimmed) ==
  LET I == {i \in 1..Len(trimmed) :
              /\ trimmed[i] = NL
              /\ \E j \in (i + 1)..Len(trimmed) :
                   trimmed[j] = NL /\ AllWs(trimmed, i + 1, j - 1)}
  IN IF I = {} THEN trimmed ELSE SubSeq(trimmed, 1, Min(I) - 1)

DocWords == {"doc", "documentation", "wiki"}
MadeWords == {"created", "provided", "assembled", "prepared"}
CoverWords == {"includes", "covers", "contains"}

\* a occupies position a, then whitespace, then position b
Then(s, a, b) == b > a + 1 /\ AllWs(s, a + 1, b - 1)

\* the four metaTriggers
MetaTrigger(par) ==
  \E a, b \in 1..Len(par) :
    \/ /\ par[a] = "i've" /\ Then(par, a, b) /\ par[b] \in MadeWords
       /\ \E c \in (b + 1)..Len(par) :
            par[c] \in DocWords /\ \A k \in b..c : par[k] # NL
    \/ /\ par[a] = "i" /\ Then(par, a, b) /\ par[b] = "have"
       /\ \E m \in (b + 2)..Len(par) :
            /\ Then(par, b, m) /\ par[m] \in MadeWords
            /\ \E c \in (m + 1)..Len(par) :
                 par[c] \in DocWords /\ \A k \in m..c : par[k] # NL
    \/ /\ par[a] \in {"this", "the"} /\ Then(par, a, b) /\ par[b] \in DocWords
       /\ \E c \in (b + 2)..Len(par) : Then(par, b, c) /\ par[c] \in CoverWords

isMetaDescription(content) ==
  LET trimmed == Trim(content) IN
  IF trimmed = <<>> THEN FALSE
  ELSE LET paragraph == Lower(FirstParagraph(trimmed)) IN
       IF paragraph = <<>> THEN FALSE ELSE MetaTrigger(paragraph)

\* new RegExp('^' + hashes + '\\s+' + word + '\\b', 'm').test(content)
HasHeadingLine(content, level, word) ==
  \E p \in 1..Len(content) :
    /\ LineStart(content, p)
    /\ p + level <= Len(content)
    /\ \A k \in p..(p + level - 1) : content[k] = HASH
    /\ IsWs(content[p + level])
    /\ LET q == SkipWs(content, p + level) IN
       /\ q # 0
       /\ content[q] = word
       /\ q = Len(content) \/ ~IsWord(content[q + 1])

ensureSection(content, heading, fallbackBody) ==
  IF HasHeadingLine(content, 2, heading) THEN content
  ELSE Trim(content) \o <<NL, NL, HASH, HASH, SP, heading, NL>>
         \o Trim(fallbackBody) \o <<NL>>

\* The pattern is built in a template literal with single backslashes, so its
\* \s is the letter s and its \b is the backspace character: it matches only
\* "##" followed by letters s, the heading and a backspace, which no text
\* holds, and replace() returns the content as it is.
removeSection(content, heading) == Trim(content)

DEFAULT_MERMAID_BODY ==
  <<FENCE, "mermaid", NL, "graph", SP, "TD", NL, "ComponentA-->ComponentB", NL, FENCE>>

\* normalized.match(/<fence>mermaid[\s\S]*?<fence>/i): <<first, last>> position, <<>> if none
FencedMermaid(s) ==
  LET I == {p \in 1..Len(s) :
              /\ s[p] = FENCE
              /\ p < Len(s) /\ ToLower(s[p + 1]) = "mermaid"
              /\ IndexOf(s, FENCE, p + 2) # 0}
  IN IF I = {} THEN <<>> ELSE <<Min(I), IndexOf(s, FENCE, Min(I) + 2)>>

\* normalized.replace(/<fence>mermaid[\s\S]*?<fence>/gi, '')
RECURSIVE RemoveFencedMermaid(_)
RemoveFencedMermaid(s) ==
  LET m == FencedMermaid(s) IN
  IF m = <<>> THEN s
  ELSE SubSeq(s, 1, m[1] - 1) \o RemoveFencedMermaid(From(s, m[2] + 1))

\* normalized.match(/(^|\n)(graph\s+TD[\s\S]*?)(?=(?:\n##\s+)|$)/i): the
\* <<first, last>> position of the second group, <<>> if none
StrayMermaid(s) ==
  LET I == {p \in 1..Len(s) :
              /\ LineStart(s, p)
              /\ ToLower(s[p]) = "graph"
              /\ p < Len(s) /\ IsWs(s[p + 1])
              /\ SkipWs(s, p + 1) # 0
              /\ ToLower(s[SkipWs(s, p + 1)]) = "td"}
      ends(p) == {e \in SkipWs(s, p + 1)..Len(s) :
                    \/ e = Len(s)
                    \/ /\ e + 4 <= Len(s)
                       /\ s[e + 1] = NL /\ s[e + 2] = HASH /\ s[e + 3] = HASH
                       /\ IsWs(s[e + 4])}
  IN IF I = {} THEN <<>> ELSE <<Min(I), Min(ends(Min(I)))>>

SectionRules ==
  << <<"Summary", <<"_TODO: Provide an architectural summary._">> >>,
     <<"Architectural Pattern", <<"- **Style**: TODO", NL, "- **Key Technologies**: TODO">> >>,
     <<"Key Directories", <<"- src/: TODO">> >>,
     <<"Architectural Areas", <<"- **Area** - TODO">> >>,
     <<"Component Interactions", <<"- TODO">> >>,
     <<"Data Flow", <<"- TODO">> >> >>

\* the six ensureSection calls, in their order
RECURSIVE EnsureSections(_, _)
EnsureSections(content, n) ==
  IF n = 0 THEN content
  ELSE ensureSection(EnsureSections(content, n - 1), SectionRules[n][1], SectionRules[n][2])

ensureArchitectureOutline(content) ==
  LET trimmed == Trim(content)
      titled == IF HasHeadingLine(trimmed, 1, "Architecture") THEN trimmed
                ELSE <<HASH, SP, "Architecture", NL, NL>> \o trimmed
      sectioned == EnsureSections(titled, Len(SectionRules))
      fenced == FencedMermaid(sectioned)
      stray == StrayMermaid(sectioned)
      mermaidBlock ==
        IF fenced # <<>> THEN Trim(SubSeq(sectioned, fenced[1], fenced[2]))
        ELSE IF stray # <<>>
          THEN <<FENCE, "mermaid", NL>> \o Trim(SubSeq(sectioned, stray[1], stray[2]))
                 \o <<NL, FENCE>>
          ELSE DEFAULT_MERMAID_BODY
      normalized ==
        IF fenced # <<>> THEN Trim(RemoveFencedMermaid(sectioned))
        ELSE IF stray # <<>>
          THEN Trim(SubSeq(sectioned, 1, stray[1] - 1) \o From(sectioned, stray[2] + 1))
          ELSE sectioned
  IN Trim(removeSection(normalized, "Diagram") \o <<NL, NL, HASH, HASH, SP, "Diagram", NL, NL>>
            \o mermaidBlock \o <<NL>>)

\* TemplateRenderer.render when loadTemplate finds no template file
render(templateName, content) == content

\* existingDoc?: string
NoDoc == [defined |-> FALSE, text |-> <<>>]
Doc(text) == [defined |-> TRUE, text |-> text]

\* existingDoc && existingDoc.trim().length > 0
Usable(existingDoc) == existingDoc.defined /\ Trim(existingDoc.text) # <<>>

Placeholder(title, sentence) == Heading(1, title) \o <<NL, NL, sentence>>

generateHomePage(rawResponse, existingDoc) ==
  LET title == <<"Home">>
      response == stripFenceWrappers(rawResponse)
      withHeading == ensureHeading(response, title)
      templated == render("home", withHeading)
      fallback == IF Usable(existingDoc) THEN existingDoc.text
                  ELSE Placeholder(title, "Unable to generate home page.")
  IN IF ~hasMeaningfulBody(withHeading, title) THEN fallback
     ELSE IF ~hasMeaningfulBody(templated, title) THEN fallback
     ELSE templated

generateArchitecturalOverview(rawResponse, existingDoc) ==
  LET title == <<"Architecture">>
      response == stripFenceWrappers(rawResponse)
      withHeading == ensureHeading(response, title)
      normalized == ensureArchitectureOutline(withHeading)
      templated == render("architecture", normalized)
      fallback == IF Usable(existingDoc) THEN existingDoc.text
                  ELSE Placeholder(title, "Unable to generate architectural overview.")
  IN IF ~hasMeaningfulBody(normalized, title) THEN fallback
     ELSE IF ~hasMeaningfulBody(templated, title) THEN fallback
     ELSE templated

generateAreaDocumentation(area, rawResponse, existingDoc) ==
  LET response == stripFenceWrappers(rawResponse)
      withHeading == ensureHeading(response, area)
      templated == render("area", withHeading)
      placeholder == Placeholder(area, "Unable to generate documentation for this area.")
      nonMeta == IF Usable(existingDoc) /\ ~isMetaDescription(existingDoc.text)
                   THEN existingDoc.text ELSE placeholder
      fallback == IF Usable(existingDoc) THEN existingDoc.text ELSE placeholder
  IN IF isMetaDescription(withHeading) THEN nonMeta
     ELSE IF ~hasMeaningfulBody(withHeading, area) THEN fallback
     ELSE IF isMetaDescription(templated) THEN nonMeta
     ELSE IF ~hasMeaningfulBody(templated, area) THEN fallback
     ELSE templated

(***************************************************************************)
(* Page names, page files and the navigation file.  A name is a sequence   *)
(* of tokens like a text: words, " ", "-", "_", "/" and "&".               *)
(***************************************************************************)
\* the characters of the class [A-Za-z0-9\s_-]
IsNameChar(t) == t \notin {"/", "&"}

\* the text after the slashes it starts with
RECURSIVE DropSlashes(_)
DropSlashes(s) == IF s # <<>> /\ Head(s) = "/" THEN DropSlashes(Tail(s)) ELSE s

\* replace(/[\\/]+/g, ' '): every run of slashes becomes one space
RECURSIVE SlashesToSpace(_)
SlashesToSpace(s) ==
  IF s = <<>> THEN <<>>
  ELSE IF Head(s) = "/" THEN <<SP>> \o SlashesToSpace(DropSlashes(s))
  ELSE <<Head(s)>> \o SlashesToSpace(Tail(s))

\* index.ts sanitizePageName: the key a page gets in allDocs
sanitizePageName(name) ==
  LET trimmed == Trim(name) IN
  IF trimmed = <<>> THEN <<"Page">>
  ELSE IF Lower(trimmed) = <<"home">> THEN <<"Home">>
  ELSE LET unslashed == SlashesToSpace(trimmed)
           spaced == [i \in DOMAIN unslashed |->
                        IF IsNameChar(unslashed[i]) THEN unslashed[i] ELSE SP]
       IN Trim(Collapse(spaced))

\* replace(/\s+/g, '-')
RECURSIVE Hyphenate(_)
Hyphenate(s) ==
  IF s = <<>> THEN <<>>
  ELSE IF IsWs(Head(s)) THEN <<"-">> \o Hyphenate(TrimStart(s))
  ELSE <<Head(s)>> \o Hyphenate(Tail(s))

mapPageNameToFile(pageName) ==
  LET trimmed == Trim(pageName) IN
  IF trimmed = <<>> THEN <<"Page">>
  ELSE IF Lower(trimmed) = <<"home">> THEN <<"Home">>
  ELSE Hyphenate(Trim(SelectSeq(trimmed, IsNameChar)))

\* the place of a character in the collation localeCompare uses: space, then
\* punctuation, then letters in alphabetical order whatever their case
CollationRank(t) ==
  CASE t = SP -> 0
    [] t = "_" -> 1
    [] t = "-" -> 2
    [] t = "/" -> 3
    [] t = "&" -> 4
    [] ToLower(t) = "api" -> 5
    [] ToLower(t) = "architecture" -> 6
    [] ToLower(t) = "auth" -> 7
    [] ToLower(t) = "home" -> 8
    [] ToLower(t) = "page" -> 9
    [] OTHER -> 10

\* a.localeCompare(b) < 0
RECURSIVE ComesBefore(_, _)
ComesBefore(a, b) ==
  IF b = <<>> THEN FALSE
  ELSE IF a = <<>> THEN TRUE
  ELSE IF CollationRank(Head(a)) # CollationRank(Head(b))
    THEN CollationRank(Head(a)) < CollationRank(Head(b))
  ELSE ComesBefore(Tail(a), Tail(b))

\* names.find((name) => name.toLowerCase() === word): <<the name>>, <<>> if none
Find(names, word) ==
  LET I == {i \in DOMAIN names : Lower(names[i]) = <<word>>} IN
  IF I = {} THEN <<>> ELSE <<names[Min(I)]>>

\* Array.prototype.sort with localeCompare, which is stable
RECURSIVE SortNames(_)
SortNames(names) ==
  IF names = <<>> THEN <<>>
  ELSE LET first == Min({i \in DOMAIN names :
                           \A j \in DOMAIN names : ~ComesBefore(names[j], names[i])})
       IN <<names[first]>>
            \o SortNames(SubSeq(names, 1, first - 1) \o From(names, first + 1))

\* the names in the order found
orderPagesForSidebar_unsorted(names) ==
  LET hasHome == Find(names, "home")
      hasArchitecture == Find(names, "architecture")
      rest == SelectSeq(names, LAMBDA n : <<n>> # hasHome /\ <<n>> # hasArchitecture)
  IN hasHome \o hasArchitecture \o rest

orderPagesForSidebar(names) ==
  LET hasHome == Find(names, "home")
      hasArchitecture == Find(names, "architecture")
      rest == SelectSeq(names, LAMBDA n : <<n>> # hasHome /\ <<n>> # hasArchitecture)
  IN hasHome \o hasArchitecture \o SortNames(rest)

\* allDocs.set(pageName, ...): a new key goes last, a known key keeps its place
MapSet(keys, key) ==
  IF \E i \in DOMAIN keys : keys[i] = key THEN keys ELSE Append(keys, key)

RECURSIVE CollectKeys(_)
CollectKeys(raw) ==
  IF raw = <<>> THEN <<>>
  ELSE MapSet(CollectKeys(SubSeq(raw, 1, Len(raw) - 1)), sanitizePageName(raw[Len(raw)]))

(***************************************************************************)
(* State                                                                   *)
(***************************************************************************)
VARIABLES
  cfg,      \* the RepositoryHandle's configuration: mode, token
  repo,     \* the local checkout
  remote,   \* the log of the target branch on the remote
  nextId,   \* id of the next commit anybody creates
  pc,       \* position inside writeDocumentation ("idle" outside of it)
  wd,       \* the running writeDocumentation call: pages, steps taken, results
  last,     \* the operation that made the last step, its input and outcome
  page,     \* the page being generated: kind, title, response, prior page, result
  docs,     \* the pages of a run: names given, map keys, files and navigation lines
  procs     \* the git processes of the running operation: to start, in flight

vars == <<cfg, repo, remote, nextId, pc, wd, last, page, docs, procs>>

World == [repo |-> repo, remote |-> remote, nextId |-> nextId]

PageNames == {"Home"}
PageSets == UNION {[S -> 1..MaxVal] : S \in SUBSET PageNames}

\* the file a page is written to (mapPageNameToFile + ".md")
FileOf(name) == PageFile
\* content of the navigation file: a function of the page names only
SidebarVal(pages) == 1

InitialCommit == [id |-> 1, tree |-> [EmptyTree EXCEPT ![PageFile] = 1]]

\* message.includes(<the credential-embedded URL>)
Leaks(err) == UrlArg(TRUE) \in err.msg

\* a failure chosen for a command the operation never started changes nothing:
\* the step is the one taken without a failure, and is taken as that one
Effective(f, r) == IF f.cmd \in SeqToSet(r.cmds) THEN f ELSE NoFail

Record(op, f, r) ==
  [op |-> op, f |-> Effective(f, r), kind |-> r.err.kind, leak |-> Leaks(r.err),
   ret |-> r.ret,
   pre |-> [exists |-> repo.exists, clean |-> Porcelain(repo) = {}, branch |-> repo.branch,
            ahead |-> IF repo.exists /\ repo.origin.has
                        THEN Cardinality(Ids(HeadLog(repo)) \ Ids(repo.origin.log))
                        ELSE 0]]

NoCall ==
  [op |-> "none", f |-> NoFail, kind |-> "none", leak |-> FALSE, ret |-> FALSE,
   pre |-> [exists |-> FALSE, clean |-> TRUE, branch |-> "", ahead |-> 0]]

NoRes == Res(World, NoErr, FALSE, <<>>, DegenerateStatus)

IdleWd == [pages |-> <<>>, trace |-> <<>>, committed |-> FALSE, warned |-> {},
           result |-> "none"]

\* no page is being generated
NoPage ==
  [kind |-> "none", title |-> <<>>, raw |-> <<>>, existing |-> NoDoc,
   stage |-> "none", result |-> <<>>]

\* no run is collecting pages
NoDocs ==
  [stage |-> "none", raw |-> <<>>, names |-> <<>>, files |-> <<>>, sidebar |-> <<>>,
   exit |-> 0]

\* no operation is running git
NoProcs == [op |-> "none", groups |-> <<>>, inflight |-> {}, after |-> <<>>]

Init ==
  /\ cfg \in [mode : Modes, token : {TRUE}]
  /\ repo = Absent
  /\ remote = <<InitialCommit>>
  /\ nextId = 2
  /\ pc = "idle"
  /\ wd = IdleWd
  /\ last = NoCall
  /\ page = NoPage
  /\ docs = NoDocs
  /\ procs = NoProcs

\* no call is pending: the caller may start the next one
Ready == pc = "idle" /\ last = NoCall

FailuresOf(cmds) == {f \in Failures : f.cmd \in cmds \cup {"none"}}

\* the world after an operation becomes the state
Apply(r) ==
  /\ r.s.nextId <= MaxCommits + 1
  /\ repo' = r.s.repo
  /\ remote' = r.s.remote
  /\ nextId' = r.s.nextId

(***************************************************************************)
(* Direct calls of the manager's operations                                *)
(***************************************************************************)
Prepare ==
  /\ Ready
  /\ \E f \in FailuresOf({"rev-parse", "status", "clone", "fetch", "checkout", "reset"}) :
       LET r == prepare(cfg, World, f) IN
       /\ Effective(f, r) = f
       /\ Apply(r)
       /\ last' = Record("prepare", f, r)
  /\ UNCHANGED <<procs, docs, page, cfg, pc, wd>>

Status ==
  /\ Ready
  /\ \E f \in FailuresOf({"rev-parse", "status", "rev-list"}) :
       LET r == status(cfg, World, f) IN
       /\ Effective(f, r) = f
       /\ Apply(r)
       /\ last' = Record("status", f, r)
  /\ UNCHANGED <<procs, docs, page, cfg, pc, wd>>

Update ==
  /\ Ready
  /\ \E f \in FailuresOf({"rev-parse", "status", "fetch", "checkout", "reset"}) :
       LET r == update(cfg, World, f) IN
       /\ Effective(f, r) = f
       /\ Apply(r)
       /\ last' = Record("update", f, r)
  /\ UNCHANGED <<procs, docs, page, cfg, pc, wd>>

Commit ==
  /\ Ready
  /\ \E f \in FailuresOf({"rev-parse", "status", "add", "commit"}) :
       LET r == commit(cfg, World, f) IN
       /\ Effective(f, r) = f
       /\ Apply(r)
       /\ last' = Record("commit", f, r)
  /\ UNCHANGED <<procs, docs, page, cfg, pc, wd>>

Push ==
  /\ Ready
  /\ \E f \in FailuresOf({"push"}) :
       LET r == push(cfg, World, f) IN
       /\ Effective(f, r) = f
       /\ Apply(r)
       /\ last' = Record("push", f, r)
  /\ UNCHANGED <<procs, docs, page, cfg, pc, wd>>

(***************************************************************************)
(* The operator of the machine and the other writers of the remote         *)
(***************************************************************************)
\* somebody edits, creates or deletes a file in the checkout
EditFile ==
  /\ Ready
  /\ repo.exists
  /\ \E p \in {PageFile}, v \in Vals :
       /\ v # repo.wt[p]
       /\ repo' = [repo EXCEPT !.wt[p] = v]
  /\ UNCHANGED <<procs, docs, page, cfg, remote, nextId, pc, wd, last>>

\* somebody switches the checkout to another branch, created from HEAD if new
SwitchBranch ==
  /\ Ready
  /\ repo.exists
  /\ Porcelain(repo) = {}
  /\ \E b \in Branches \ {repo.branch} :
       LET log == IF repo.heads[b] # <<>> THEN repo.heads[b] ELSE HeadLog(repo) IN
       repo' = [repo EXCEPT !.branch = b, !.heads[b] = log,
                            !.index = TreeOf(log), !.wt = TreeOf(log)]
  /\ UNCHANGED <<procs, docs, page, cfg, remote, nextId, pc, wd, last>>

\* another writer pushes a commit to the remote
RemoteAdvance ==
  /\ Ready \/ pc # "idle"
  /\ nextId <= MaxCommits
  /\ \E v \in 1..MaxVal :
       remote' = Append(remote,
                        [id |-> nextId, tree |-> [TreeOf(remote) EXCEPT ![PageFile] = v]])
  /\ nextId' = nextId + 1
  /\ UNCHANGED <<procs, docs, page, cfg, repo, pc, wd, last>>

(***************************************************************************)
(* GitHubWikiWriter.writeDocumentation, one await at a time                *)
(***************************************************************************)
Step(name) == [wd EXCEPT !.trace = Append(wd.trace, name)]

\* entry: an empty page set returns at once
WDStart ==
  /\ Ready
  /\ \E pages \in PageSets :
       /\ wd' = [IdleWd EXCEPT !.pages = pages,
                               !.result = IF DOMAIN pages = {} THEN "ok" ELSE "running"]
       /\ pc' = IF DOMAIN pages = {} THEN "idle" ELSE "prepare"
  /\ last' = Record("writeDocumentation", NoFail, NoRes)
  /\ UNCHANGED <<procs, docs, page, cfg, repo, remote, nextId>>

\* await this._repoManager.prepare()
WDPrepare ==
  /\ pc = "prepare"
  /\ \E f \in FailuresOf({"rev-parse", "status", "clone", "fetch", "checkout", "reset"}) :
       LET r == prepare(cfg, World, f) IN
       /\ Effective(f, r) = f
       /\ Apply(r)
       /\ last' = Record("wd.prepare", f, r)
       /\ IF r.err.kind = "none"
            THEN pc' = "status" /\ wd' = Step("prepare")
            ELSE pc' = "idle" /\ wd' = [Step("prepare") EXCEPT !.result = "failed"]
  /\ UNCHANGED <<procs, docs, page, cfg>>

\* a writeDocumentation that gives up when status() reports uncommitted changes
WDStatus_abortsWhenDirty ==
  /\ pc = "status"
  /\ \E f \in FailuresOf({"rev-parse", "status", "rev-list"}) :
       LET r == status(cfg, World, f) IN
       /\ Effective(f, r) = f
       /\ Apply(r)
       /\ last' = Record("wd.status", f, r)
       /\ IF r.err.kind = "none" /\ r.st.clean
            THEN pc' = "writePages" /\ wd' = Step("status")
            ELSE pc' = "idle" /\ wd' = [Step("status") EXCEPT !.result = "failed"]
  /\ UNCHANGED <<procs, docs, page, cfg>>

\* const status = await this._repoManager.status(); warn when not clean
WDStatus ==
  /\ pc = "status"
  /\ \E f \in FailuresOf({"rev-parse", "status", "rev-list"}) :
       LET r == status(cfg, World, f) IN
       /\ Effective(f, r) = f
       /\ Apply(r)
       /\ last' = Record("wd.status", f, r)
       /\ IF r.err.kind = "none"
            THEN /\ pc' = "writePages"
                 /\ wd' = [Step("status") EXCEPT
                             !.warned = IF r.st.clean THEN {} ELSE r.st.uncommittedChanges]
            ELSE pc' = "idle" /\ wd' = [Step("status") EXCEPT !.result = "failed"]
  /\ UNCHANGED <<procs, docs, page, cfg>>

\* the tree after writing the first k pages of the set
WriteFiles(tree, pages, names) ==
  [p \in Paths |->
     IF \E n \in names : FileOf(n) = p
       THEN pages[CHOOSE n \in names : FileOf(n) = p]
       ELSE tree[p]]

\* await this.writePages(pages): writeFile may fail after some of the pages
WDWritePages ==
  /\ pc = "writePages"
  /\ \E ioFails \in BOOLEAN, done \in SUBSET DOMAIN wd.pages :
       /\ ~ioFails => done = DOMAIN wd.pages
       /\ ioFails => done # DOMAIN wd.pages
       /\ repo' = [repo EXCEPT !.wt = WriteFiles(repo.wt, wd.pages, done)]
       /\ IF ioFails
            THEN pc' = "idle" /\ wd' = [Step("writePages") EXCEPT !.result = "failed"]
            ELSE pc' = "writeSidebar" /\ wd' = Step("writePages")
  /\ last' = Record("wd.writePages", NoFail, NoRes)
  /\ UNCHANGED <<procs, docs, page, cfg, remote, nextId>>

\* await this.writeSidebar(pages)
WDWriteSidebar ==
  /\ pc = "writeSidebar"
  /\ \E ioFails \in BOOLEAN :
       IF ioFails
         THEN /\ pc' = "idle"
              /\ wd' = [Step("writeSidebar") EXCEPT !.result = "failed"]
              /\ repo' = repo
         ELSE /\ pc' = "commit"
              /\ wd' = Step("writeSidebar")
              /\ repo' = [repo EXCEPT !.wt[SidebarFile] = SidebarVal(wd.pages)]
  /\ last' = Record("wd.writeSidebar", NoFail, NoRes)
  /\ UNCHANGED <<procs, docs, page, cfg, remote, nextId>>

\* commitAndPush that pushes whatever commit() returned
WDCommit_alwaysPush ==
  /\ pc = "commit"
  /\ \E f \in FailuresOf({"rev-parse", "status", "add", "commit"}) :
       LET r == commit(cfg, World, f) IN
       /\ Effective(f, r) = f
       /\ Apply(r)
       /\ last' = Record("wd.commit", f, r)
       /\ IF r.err.kind # "none"
            THEN pc' = "idle" /\ wd' = [Step("commit") EXCEPT !.result = "failed"]
            ELSE pc' = "push" /\ wd' = [Step("commit") EXCEPT !.committed = r.ret]
  /\ UNCHANGED <<procs, docs, page, cfg>>

\* commitAndPush: const committed = await this._repoManager.commit(...)
WDCommit ==
  /\ pc = "commit"
  /\ \E f \in FailuresOf({"rev-parse", "status", "add", "commit"}) :
       LET r == commit(cfg, World, f) IN
       /\ Effective(f, r) = f
       /\ Apply(r)
       /\ last' = Record("wd.commit", f, r)
       /\ IF r.err.kind # "none"
            THEN pc' = "idle" /\ wd' = [Step("commit") EXCEPT !.result = "failed"]
            ELSE IF ~r.ret
              THEN pc' = "idle" /\ wd' = [Step("commit") EXCEPT !.result = "ok"]
              ELSE pc' = "push" /\ wd' = [Step("commit") EXCEPT !.committed = TRUE]
  /\ UNCHANGED <<procs, docs, page, cfg>>

\* commitAndPush: await this._repoManager.push()
WDPush ==
  /\ pc = "push"
  /\ \E f \in FailuresOf({"push"}) :
       LET r == push(cfg, World, f) IN
       /\ Effective(f, r) = f
       /\ Apply(r)
       /\ last' = Record("wd.push", f, r)
       /\ pc' = "idle"
       /\ wd' = [Step("push") EXCEPT
                   !.result = IF r.err.kind = "none" THEN "ok" ELSE "failed"]
  /\ UNCHANGED <<procs, docs, page, cfg>>

\* the caller takes the outcome of the call that just ended
Return ==
  /\ pc = "idle"
  /\ last # NoCall
  /\ last' = NoCall
  /\ wd' = IdleWd
  /\ UNCHANGED <<procs, docs, page, cfg, repo, remote, nextId, pc>>

Next ==
  \/ Return
  \/ Prepare \/ Status \/ Update \/ Commit \/ Push
  \/ EditFile \/ SwitchBranch \/ RemoteAdvance
  \/ WDStart \/ WDPrepare \/ WDStatus \/ WDWritePages \/ WDWriteSidebar
  \/ WDCommit \/ WDPush

Spec == Init /\ [][Next]_vars

(***************************************************************************)
(* Reconciling one page: the generators applied to bounded inputs          *)
(***************************************************************************)
PageKinds == {"home", "architecture", "area"}

\* the title a page of a kind is generated under
TitlesOf(kind) ==
  CASE kind = "home" -> {<<"Home">>}
    [] kind = "architecture" -> {<<"Architecture">>}
    [] kind = "area" -> {<<"Auth">>, <<"Login", SP, "Flow">>}

MetaLine == <<"this", SP, "documentation", SP, "covers">>
ProseLine == <<"Body", SP, "text">>
LineKinds == {<<>>, ProseLine, MetaLine}
Bodies == UNION {[1..n -> LineKinds] : n \in 0..MaxBodyLines}
Commentaries == {<<>>, << <<"Sure">> >>}
\* the title with every space written twice
RECURSIVE Respaced(_)
Respaced(title) ==
  IF title = <<>> THEN <<>>
  ELSE (IF Head(title) = SP THEN <<SP, SP>> ELSE <<Head(title)>>) \o Respaced(Tail(title))

HeadingLines(title) ==
  {<<>>} \cup {<<Heading(l, t)>> :
                 l \in 1..MaxLevel, t \in {title, Respaced(title), <<"Overview">>}}
Fenced(text) == <<FENCE, "markdown", NL>> \o text \o <<NL, FENCE>>

\* the responses of the model: commentary, heading, body lines, fenced or not
RawTexts(title) ==
  LET plain == {JoinLines(c \o h \o b) :
                  c \in Commentaries, h \in HeadingLines(title), b \in Bodies}
  IN plain \cup {Fenced(t) : t \in plain}

\* the page read from the wiki before generating: none, blank, good, meta
ExistingDocs(title) ==
  {NoDoc, Doc(<<SP>>),
   Doc(Heading(1, title) \o <<NL, NL, "old">>),
   Doc(Heading(1, title) \o <<NL>> \o MetaLine)}

InitPages ==
  /\ cfg = [mode |-> "reuse-or-clone", token |-> TRUE]
  /\ repo = Absent
  /\ remote = <<InitialCommit>>
  /\ nextId = 2
  /\ pc = "idle"
  /\ wd = IdleWd
  /\ last = NoCall
  /\ \E k \in PageKinds : \E t \in TitlesOf(k) :
       \E raw \in RawTexts(t) : \E ex \in ExistingDocs(t) :
         page = [kind |-> k, title |-> t, raw |-> raw, existing |-> ex,
                 stage |-> "input", result |-> <<>>]
  /\ docs = NoDocs
  /\ procs = NoProcs

\* the result a generator returned for the page
Done(result) == [page EXCEPT !.stage = "done", !.result = result]

GenerateHome ==
  /\ page.stage = "input"
  /\ page.kind = "home"
  /\ page' = Done(generateHomePage(page.raw, page.existing))
  /\ UNCHANGED <<procs, cfg, repo, remote, nextId, pc, wd, last, docs>>

GenerateArchitecture ==
  /\ page.stage = "input"
  /\ page.kind = "architecture"
  /\ page' = Done(generateArchitecturalOverview(page.raw, page.existing))
  /\ UNCHANGED <<procs, cfg, repo, remote, nextId, pc, wd, last, docs>>

GenerateArea ==
  /\ page.stage = "input"
  /\ page.kind = "area"
  /\ page' = Done(generateAreaDocumentation(page.title, page.raw, page.existing))
  /\ UNCHANGED <<procs, cfg, repo, remote, nextId, pc, wd, last, docs>>

\* the generator of a page kind, as the orchestrator calls it
reconcile(kind, title, rawResponse, existingDoc) ==
  CASE kind = "home" -> generateHomePage(rawResponse, existingDoc)
    [] kind = "architecture" -> generateArchitecturalOverview(rawResponse, existingDoc)
    [] kind = "area" -> generateAreaDocumentation(title, rawResponse, existingDoc)

NextPages == GenerateHome \/ GenerateArchitecture \/ GenerateArea

SpecPages == InitPages /\ [][NextPages]_vars

(***************************************************************************)
(* Outline enforcement of an architecture page                             *)
(***************************************************************************)
\* the subsections the outline names: the six required ones and the diagram
OutlineHeadings == [i \in 1..Len(SectionRules) |-> SectionRules[i][1]] \o <<"Diagram">>

\* the subsections of a response: some of them, each once, in any order
RECURSIVE SectionLists(_)
SectionLists(n) ==
  IF n = 0 THEN {<<>>}
  ELSE LET shorter == SectionLists(n - 1) IN
       shorter \cup {Append(l, h) : l \in {x \in shorter : Len(x) = n - 1},
                                   h \in SeqToSet(OutlineHeadings)}

NoRepeat(l) == \A i, j \in 1..Len(l) : l[i] = l[j] => i = j

\* the diagram a response carries: none, a fenced mermaid block, bare graph text
DiagramTexts ==
  [none |-> <<>>,
   fenced |-> <<FENCE, "mermaid", NL, "graph", SP, "TD", NL, "A-->B", NL, FENCE, NL, NL>>,
   stray |-> <<"graph", SP, "TD", NL, "A-->B", NL, NL>>]

\* the text of the subsections from the k-th on, the diagram after the at-th
RECURSIVE SectionsText(_, _, _, _)
SectionsText(l, k, at, diagram) ==
  IF k > Len(l) THEN <<>>
  ELSE Heading(2, <<l[k]>>) \o <<NL>> \o ProseLine \o <<NL, NL>>
         \o (IF at = k THEN diagram ELSE <<>>)
         \o SectionsText(l, k + 1, at, diagram)

OutlineInputs ==
  {(IF titled THEN Heading(1, <<"Architecture">>) \o <<NL, NL>> ELSE <<>>)
     \o (IF at = 0 THEN DiagramTexts[d] ELSE <<>>)
     \o SectionsText(l, 1, at, DiagramTexts[d]) :
     titled \in BOOLEAN,
     d \in DOMAIN DiagramTexts,
     l \in {x \in SectionLists(MaxSections) : NoRepeat(x)},
     at \in 0..MaxSections}

InitOutline ==
  /\ cfg = [mode |-> "reuse-or-clone", token |-> TRUE]
  /\ repo = Absent
  /\ remote = <<InitialCommit>>
  /\ nextId = 2
  /\ pc = "idle"
  /\ wd = IdleWd
  /\ last = NoCall
  /\ \E raw \in OutlineInputs :
       page = [NoPage EXCEPT !.kind = "outline", !.title = <<"Architecture">>,
                             !.raw = raw, !.stage = "input"]
  /\ docs = NoDocs
  /\ procs = NoProcs

\* a call of ensureArchitectureOutline
EnforceOutline ==
  /\ page.stage = "input"
  /\ page.kind = "outline"
  /\ page' = [page EXCEPT !.stage = "done", !.result = ensureArchitectureOutline(page.raw)]
  /\ UNCHANGED <<procs, cfg, repo, remote, nextId, pc, wd, last, docs>>

NextOutline == EnforceOutline

SpecOutline == InitOutline /\ [][NextOutline]_vars

(***************************************************************************)
(* The steps of normalization, each on its own                             *)
(***************************************************************************)
\* texts without a fence: commentary, heading, body lines
PlainTexts(title) ==
  {JoinLines(c \o h \o b) : c \in Commentaries, h \in HeadingLines(title), b \in Bodies}

\* responses with fences: one block, a block and text after it, two blocks,
\* text and then a block
FencedTexts(title) ==
  LET inner == {t \in PlainTexts(title) : Len(SplitLines(t)) <= 2} IN
  {Fenced(t) : t \in inner}
    \cup {Fenced(t) \o <<NL>> \o ProseLine : t \in inner}
    \cup {Fenced(t) \o <<NL, NL>> \o Fenced(ProseLine) : t \in inner}
    \cup {<<"Sure">> \o <<NL>> \o Fenced(t) : t \in inner}

InitSteps ==
  /\ cfg = [mode |-> "reuse-or-clone", token |-> TRUE]
  /\ repo = Absent
  /\ remote = <<InitialCommit>>
  /\ nextId = 2
  /\ pc = "idle"
  /\ wd = IdleWd
  /\ last = NoCall
  /\ \E t \in TitlesOf("area") :
       \/ \E raw \in PlainTexts(t) :
            page = [NoPage EXCEPT !.kind = "heading", !.title = t, !.raw = raw,
                                  !.stage = "input"]
       \/ \E raw \in PlainTexts(t) \cup FencedTexts(t) :
            page = [NoPage EXCEPT !.kind = "fence", !.title = t, !.raw = raw,
                                  !.stage = "input"]
  /\ docs = NoDocs
  /\ procs = NoProcs

\* a call of ensureHeading
NormalizeHeading ==
  /\ page.stage = "input"
  /\ page.kind = "heading"
  /\ page' = [page EXCEPT !.stage = "done", !.result = ensureHeading(page.raw, page.title)]
  /\ UNCHANGED <<procs, cfg, repo, remote, nextId, pc, wd, last, docs>>

\* a call of stripFenceWrappers
UnwrapFence ==
  /\ page.stage = "input"
  /\ page.kind = "fence"
  /\ page' = [page EXCEPT !.stage = "done", !.result = stripFenceWrappers(page.raw)]
  /\ UNCHANGED <<procs, cfg, repo, remote, nextId, pc, wd, last, docs>>

NextSteps == NormalizeHeading \/ UnwrapFence

SpecSteps == InitSteps /\ [][NextSteps]_vars

(***************************************************************************)
(* Naming the pages of a run: the orchestrator collects the pages under    *)
(* their sanitized names, the writer writes one file per page and the      *)
(* navigation file.                                                        *)
(***************************************************************************)
\* the names the orchestrator is given for pages
RawNames ==
  {<<"Home">>, <<"home">>, <<"Architecture">>, <<"Zebra">>,
   <<"Auth", SP, "API">>, <<"Auth", "-", "API">>, <<"Auth", "/", "API">>}

\* up to MaxPages names, no name twice, in the order the pages are generated
NameLists ==
  UNION {{q \in [1..n -> RawNames] : \A i, j \in 1..n : q[i] = q[j] => i = j} :
           n \in 0..MaxPages}

InitNames ==
  /\ cfg = [mode |-> "reuse-or-clone", token |-> TRUE]
  /\ repo = Absent
  /\ remote = <<InitialCommit>>
  /\ nextId = 2
  /\ pc = "idle"
  /\ wd = IdleWd
  /\ last = NoCall
  /\ page = NoPage
  /\ \E raw \in NameLists : docs = [NoDocs EXCEPT !.stage = "input", !.raw = raw]
  /\ procs = NoProcs

\* allDocs.set(sanitizePageName(...), doc) for each page generated
CollectPages ==
  /\ docs.stage = "input"
  /\ docs' = [docs EXCEPT !.stage = "collected", !.names = CollectKeys(docs.raw)]
  /\ UNCHANGED <<procs, cfg, repo, remote, nextId, pc, wd, last, page>>

\* writePages: one file per page, in the order of the map
NamesWritePages ==
  /\ docs.stage = "collected"
  /\ docs' = [docs EXCEPT !.stage = "pages",
                          !.files = [i \in DOMAIN docs.names |->
                                       mapPageNameToFile(docs.names[i])]]
  /\ UNCHANGED <<procs, cfg, repo, remote, nextId, pc, wd, last, page>>

\* writeSidebar: one line per page
NamesWriteSidebar ==
  /\ docs.stage = "pages"
  /\ docs' = [docs EXCEPT !.stage = "done",
                          !.sidebar = orderPagesForSidebar(docs.names)]
  /\ UNCHANGED <<procs, cfg, repo, remote, nextId, pc, wd, last, page>>

NextNames == CollectPages \/ NamesWritePages \/ NamesWriteSidebar

SpecNames == InitNames /\ [][NextNames]_vars

(***************************************************************************)
(* A run of the orchestrator (index.ts main): it generates the pages one   *)
(* after the other and calls writeDocumentation after each of them.        *)
(***************************************************************************)
\* the pages of a run, in the order main generates them
RunOrder ==
  << <<"Home">>, <<"Architecture">>, <<"Auth", SP, "API">>, <<"Zebra">>,
     <<"Auth", "-", "API">>, <<"Auth", "/", "API">>, <<"home">> >>

RunPlans == {SubSeq(RunOrder, 1, n) : n \in 1..Min({MaxPages, Len(RunOrder)})}

InitRun ==
  /\ cfg \in [mode : Modes, token : {TRUE}]
  /\ repo = Absent
  /\ remote = <<InitialCommit>>
  /\ nextId = 2
  /\ pc = "idle"
  /\ wd = IdleWd
  /\ last = NoCall
  /\ page = NoPage
  /\ \E raw \in RunPlans : docs = [NoDocs EXCEPT !.stage = "run", !.raw = raw]
  /\ procs = NoProcs

\* the page the run generates next
NextName == sanitizePageName(docs.raw[Len(docs.names) + 1])

\* allDocs.set(pageName, doc); await persistDocs(stage), which enters
\* writeDocumentation(new Map(allDocs))
RunGenerate ==
  /\ docs.stage = "run"
  /\ Ready
  /\ Len(docs.names) < Len(docs.raw)
  /\ docs' = [docs EXCEPT !.stage = "persist", !.names = MapSet(docs.names, NextName)]
  /\ \E v \in 1..MaxVal : wd' = [IdleWd EXCEPT !.pages = [n \in PageNames |-> v],
                                                !.result = "running"]
  /\ pc' = "prepare"
  /\ last' = Record("writeDocumentation", NoFail, NoRes)
  /\ UNCHANGED <<procs, cfg, repo, remote, nextId, page>>

\* writeDocumentation returned: main goes on with the next page
RunResume ==
  /\ docs.stage = "persist"
  /\ pc = "idle"
  /\ wd.result = "ok"
  /\ docs' = [docs EXCEPT !.stage = "run"]
  /\ wd' = IdleWd
  /\ last' = NoCall
  /\ UNCHANGED <<procs, cfg, repo, remote, nextId, pc, page>>

\* a run that logs the error of writeDocumentation and goes on
RunAbort_goesOn ==
  /\ docs.stage = "persist"
  /\ pc = "idle"
  /\ wd.result = "failed"
  /\ docs' = [docs EXCEPT !.stage = "run"]
  /\ wd' = IdleWd
  /\ last' = NoCall
  /\ UNCHANGED <<procs, cfg, repo, remote, nextId, pc, page>>

\* writeDocumentation threw: main() rejects, main().catch calls process.exit(1)
RunAbort ==
  /\ docs.stage = "persist"
  /\ pc = "idle"
  /\ wd.result = "failed"
  /\ docs' = [docs EXCEPT !.stage = "exited", !.exit = 1]
  /\ UNCHANGED <<procs, cfg, repo, remote, nextId, pc, wd, last, page>>

\* every page is generated and written: main returns
RunFinish ==
  /\ docs.stage = "run"
  /\ Ready
  /\ Len(docs.names) = Len(docs.raw)
  /\ docs' = [docs EXCEPT !.stage = "exited", !.exit = 0]
  /\ UNCHANGED <<procs, cfg, repo, remote, nextId, pc, wd, last, page>>

\* somebody edits the checkout or pushes to the remote while the run goes on
RunEditFile == docs.stage = "run" /\ EditFile

RunRemoteAdvance == docs.stage \in {"run", "persist"} /\ RemoteAdvance

NextRun ==
  \/ RunGenerate \/ RunResume \/ RunAbort \/ RunFinish
  \/ RunEditFile \/ RunRemoteAdvance
  \/ WDPrepare \/ WDStatus \/ WDWritePages \/ WDWriteSidebar \/ WDCommit \/ WDPush

SpecRun == InitRun /\ [][NextRun]_vars

(***************************************************************************)
(* A run of the orchestrator with target files (index.ts main)             *)
(***************************************************************************)
\* an area: has relevant files, one of them is a target file, has a page in
\* the wiki already
AreaPlans ==
  UNION {[1..n -> [relevant : BOOLEAN, hits : BOOLEAN, existing : BOOLEAN]] :
           n \in 0..Min({MaxAreas, Len(RunOrder) - 2})}

InitSelective ==
  /\ cfg = [mode |-> "reuse-or-clone", token |-> TRUE]
  /\ repo = Absent
  /\ remote = <<InitialCommit>>
  /\ nextId = 2
  /\ pc = "idle"
  /\ wd = IdleWd
  /\ last = NoCall
  /\ page = NoPage
  /\ \E writer \in BOOLEAN, selective \in BOOLEAN, home \in BOOLEAN, arch \in BOOLEAN,
        areas \in AreaPlans :
       docs = [stage |-> "home", wikiWriter |-> writer, selectiveRun |-> selective,
               existingHome |-> home, existingArchitecture |-> arch, areas |-> areas,
               area |-> 1, allDocs |-> <<>>, generated |-> {}, updatedPages |-> <<>>,
               pendingPersistStage |-> "", writes |-> <<>>, exit |-> 0]
  /\ procs = NoProcs

\* persistDocs that writes the wiki in a selective run too
persistDocs_writesAlways(d, stage, ok) ==
  IF ~d.wikiWriter THEN d
  ELSE IF ok THEN [d EXCEPT !.writes = Append(@, [at |-> d.stage, pages |-> d.allDocs])]
  ELSE [d EXCEPT !.writes = Append(@, [at |-> d.stage, pages |-> d.allDocs]),
                 !.stage = "exited", !.exit = 1]

\* persistDocs(stage); ok: writeDocumentation returns, otherwise it throws
\* and main().catch ends the process
persistDocs(d, stage, ok) ==
  IF ~d.wikiWriter THEN d
  ELSE IF d.selectiveRun THEN [d EXCEPT !.pendingPersistStage = stage]
  ELSE IF ok THEN [d EXCEPT !.writes = Append(@, [at |-> d.stage, pages |-> d.allDocs])]
  ELSE [d EXCEPT !.writes = Append(@, [at |-> d.stage, pages |-> d.allDocs]),
                 !.stage = "exited", !.exit = 1]

\* allDocs.set(name, ...) for a page generated in this run
Generated(d, name) ==
  [d EXCEPT !.allDocs = MapSet(@, name), !.generated = @ \cup {name}]

\* the step the run takes next unless it has exited
Onward(d, stage) == IF d.stage = "exited" THEN d ELSE [d EXCEPT !.stage = stage]

\* Step 1: the home page
SelHome ==
  /\ docs.stage = "home"
  /\ \E ok \in BOOLEAN :
       LET name == sanitizePageName(RunOrder[1]) IN
       docs' =
         IF docs.selectiveRun /\ docs.wikiWriter /\ docs.existingHome
           THEN Onward([docs EXCEPT !.allDocs = MapSet(@, name)], "architecture")
           ELSE Onward(persistDocs(Generated(docs, name), "home page", ok), "architecture")
  /\ UNCHANGED <<procs, cfg, repo, remote, nextId, pc, wd, last, page>>

\* Step 2: the architectural overview
SelArchitecture ==
  /\ docs.stage = "architecture"
  /\ \E ok \in BOOLEAN :
       LET name == sanitizePageName(RunOrder[2]) IN
       docs' =
         IF docs.selectiveRun /\ docs.wikiWriter /\ docs.existingArchitecture
           THEN Onward([docs EXCEPT !.allDocs = MapSet(@, name)], "areas")
           ELSE Onward(persistDocs(Generated(docs, name), "architectural overview", ok),
                       "areas")
  /\ UNCHANGED <<procs, cfg, repo, remote, nextId, pc, wd, last, page>>

\* Step 4: one pass of the loop over the areas
SelArea ==
  /\ docs.stage = "areas"
  /\ docs.area <= Len(docs.areas)
  /\ \E ok \in BOOLEAN :
       LET a == docs.areas[docs.area]
           name == sanitizePageName(RunOrder[2 + docs.area])
           existingAreaDoc == docs.wikiWriter /\ a.existing
           intersectsTarget == IF ~docs.selectiveRun THEN TRUE ELSE a.hits
           next == [docs EXCEPT !.area = @ + 1]
           kept == IF existingAreaDoc THEN [next EXCEPT !.allDocs = MapSet(@, name)] ELSE next
           persisted == persistDocs(Generated(next, name), "area", ok)
       IN docs' =
            IF ~a.relevant \/ ~intersectsTarget THEN kept
            ELSE IF persisted.stage = "exited" THEN persisted
            ELSE [persisted EXCEPT !.updatedPages = Append(@, name)]
  /\ UNCHANGED <<procs, cfg, repo, remote, nextId, pc, wd, last, page>>

\* after the loop: the one write of a selective run, then the end of main
SelFinal ==
  /\ docs.stage = "areas"
  /\ docs.area > Len(docs.areas)
  /\ \E ok \in BOOLEAN :
       LET d == [docs EXCEPT !.stage = "final"] IN
       docs' =
         IF d.wikiWriter /\ d.selectiveRun /\ d.updatedPages # <<>>
           THEN IF ok
                  THEN [d EXCEPT !.writes = Append(@, [at |-> "final", pages |-> d.allDocs]),
                                 !.stage = "exited"]
                  ELSE [d EXCEPT !.writes = Append(@, [at |-> "final", pages |-> d.allDocs]),
                                 !.stage = "exited", !.exit = 1]
           ELSE [d EXCEPT !.stage = "exited"]
  /\ UNCHANGED <<procs, cfg, repo, remote, nextId, pc, wd, last, page>>

NextSelective == SelHome \/ SelArchitecture \/ SelArea \/ SelFinal

SpecSelective == InitSelective /\ [][NextSelective]_vars

(***************************************************************************)
(* The git processes of an operation (runGit: one execFile per command)    *)
(***************************************************************************)
ManagerOps == {"status", "clone", "update", "commit", "push", "prepare"}

RunOp(op, c, s, f) ==
  CASE op = "status" -> status(c, s, f)
    [] op = "clone" -> clone(c, s, f)
    [] op = "update" -> update(c, s, f)
    [] op = "commit" -> commit(c, s, f)
    [] op = "push" -> push(c, s, f)
    [] op = "prepare" -> prepare(c, s, f)

\* the commands of an operation in the groups it starts together: status()
\* hands its three runGit promises to Promise.all and awaits them at once,
\* every other runGit is awaited before the next starts; rm is no git process
RECURSIVE Launches(_)
Launches(cmds) ==
  IF cmds = <<>> THEN <<>>
  ELSE IF Len(cmds) >= Len(StatusCmds) /\ SubSeq(cmds, 1, Len(StatusCmds)) = StatusCmds
    THEN <<StatusCmds>> \o Launches(SubSeq(cmds, Len(StatusCmds) + 1, Len(cmds)))
  ELSE IF Head(cmds) = "rm" THEN Launches(Tail(cmds))
  ELSE <<(<<Head(cmds)>>)>> \o Launches(Tail(cmds))

InitProcs ==
  /\ cfg \in [mode : Modes, token : {TRUE}]
  /\ repo = Absent
  /\ remote = <<InitialCommit>>
  /\ nextId = 2
  /\ pc = "idle"
  /\ wd = IdleWd
  /\ last = NoCall
  /\ page = NoPage
  /\ docs = NoDocs
  /\ procs = NoProcs

\* the caller calls an operation of the manager
ProcCall ==
  /\ Ready
  /\ procs = NoProcs
  /\ \E op \in ManagerOps, f \in Failures :
       LET r == RunOp(op, cfg, World, f) IN
       /\ r.s.nextId <= MaxCommits + 1
       /\ procs' = [op |-> op, groups |-> Launches(r.cmds), inflight |-> {}, after |-> r.s]
       /\ last' = Record(op, f, r)
  /\ UNCHANGED <<cfg, repo, remote, nextId, pc, wd, page, docs>>

\* the operation starts the git processes of its next group
ProcStart ==
  /\ procs.op # "none"
  /\ procs.inflight = {}
  /\ procs.groups # <<>>
  /\ procs' = [procs EXCEPT !.inflight = SeqToSet(Head(procs.groups)),
                            !.groups = Tail(procs.groups)]
  /\ UNCHANGED <<cfg, repo, remote, nextId, pc, wd, last, page, docs>>

\* a git process ends
ProcExit ==
  /\ \E c \in procs.inflight : procs' = [procs EXCEPT !.inflight = procs.inflight \ {c}]
  /\ UNCHANGED <<cfg, repo, remote, nextId, pc, wd, last, page, docs>>

\* the operation has awaited every process: it returns or throws
ProcReturn ==
  /\ procs.op # "none"
  /\ procs.inflight = {}
  /\ procs.groups = <<>>
  /\ repo' = procs.after.repo
  /\ remote' = procs.after.remote
  /\ nextId' = procs.after.nextId
  /\ procs' = NoProcs
  /\ last' = NoCall
  /\ UNCHANGED <<cfg, pc, wd, page, docs>>

\* somebody edits the checkout between two operations
ProcEditFile == procs = NoProcs /\ EditFile

NextProcs == ProcCall \/ ProcStart \/ ProcExit \/ ProcReturn \/ ProcEditFile

SpecProcs == InitProcs /\ [][NextProcs]_vars

(***************************************************************************)
(* Claims about the repository manager and the writer                      *)
(***************************************************************************)
\* the step is a call of prepare(), made directly or by writeDocumentation
PrepareStep ==
  \/ last = NoCall /\ last'.op = "prepare"
  \/ pc = "prepare" /\ last'.op = "wd.prepare"

\* the step is a call of commit(), made directly or by commitAndPush
CommitStep ==
  \/ last = NoCall /\ last'.op = "commit"
  \/ pc = "commit" /\ last'.op = "wd.commit"

UpdateStep == last = NoCall /\ last'.op = "update"

\* the uncommitted edits of the checkout are all still there after the step
EditsKept ==
  /\ repo'.exists
  /\ \A p \in Porcelain(repo) : repo'.wt[p] = repo.wt[p] /\ p \in Porcelain(repo')

\* C1: update() on a checkout whose status() reports uncommitted changes fails
\* with BlockedByLocalChanges listing exactly the uncommitted paths, starts no
\* fetch, checkout or reset, and leaves the checkout and the remote as they were.
C1_UpdateRefusesDirtyTree ==
  [][ (UpdateStep /\ repo.exists /\ Porcelain(repo) # {}
         /\ last'.f.cmd \notin {"rev-parse", "status"})
      => LET r == update(cfg, World, last'.f) IN
         /\ r.err = Blocked(Porcelain(repo))
         /\ last'.kind = "BlockedByLocalChanges"
         /\ SeqToSet(r.cmds) \cap {"fetch", "checkout", "reset"} = {}
         /\ repo' = repo
         /\ remote' = remote ]_vars

C1_Witness ==
  /\ last.op = "update"
  /\ last.kind = "BlockedByLocalChanges"
  /\ ~last.pre.clean
  /\ Porcelain(repo) # {}

\* C2 as stated: in every mode, the uncommitted edits present before prepare()
\* are still present after it, or the call fails and reports them.
C2_PrepareKeepsEditsInEveryMode ==
  [][ (PrepareStep /\ repo.exists /\ Porcelain(repo) # {})
      => \/ EditsKept
         \/ /\ last'.kind = "BlockedByLocalChanges"
            /\ prepare(cfg, World, last'.f).err.paths = Porcelain(repo) ]_vars

\* C2 amended: in incremental and reuse-or-clone mode, the uncommitted edits
\* present before prepare() are still present after it (in incremental mode
\* the call then fails with the error that lists them); in fresh mode the
\* checkout is deleted with its edits and nothing reports them.
C2_PrepareKeepsEditsUnlessFresh ==
  [][ (PrepareStep /\ repo.exists /\ Porcelain(repo) # {})
      => LET r == prepare(cfg, World, last'.f) IN
         /\ cfg.mode # "fresh" => EditsKept
         /\ cfg.mode = "incremental" /\ last'.f.cmd \notin {"rev-parse", "status"}
              => r.err = Blocked(Porcelain(repo))
         /\ cfg.mode = "fresh"
              => /\ r.err.kind # "BlockedByLocalChanges"
                 /\ \/ ~repo'.exists
                    \/ Porcelain(repo') = {} ]_vars

C2_Witness ==
  /\ last.op \in {"prepare", "wd.prepare"}
  /\ last.pre.exists /\ ~last.pre.clean
  /\ cfg.mode \in {"incremental", "reuse-or-clone"}
  /\ Porcelain(repo) # {}

\* C3: whenever prepare() returns without error the checkout exists, and a
\* clone was run whenever the checkout was absent at the call.
C3_PrepareLeavesCheckout ==
  [][ PrepareStep
      => LET r == prepare(cfg, World, last'.f) IN
         /\ last'.kind = "none" => repo'.exists /\ exists(r.s)
         /\ ~repo.exists => "clone" \in SeqToSet(r.cmds) ]_vars

C3_Witness ==
  /\ last.op \in {"prepare", "wd.prepare"}
  /\ last.kind = "none"
  /\ ~last.pre.exists
  /\ repo.exists

\* C6: with a token configured, no error thrown by a git invocation carries the
\* credential-embedded URL.
C6_NoCredentialInErrors ==
  (cfg.token /\ last.kind = "git") => ~last.leak

\* C7: commit() returns true only when the tree was dirty at the call, and then
\* history grew by exactly one commit; history changes in no other case; on a
\* clean tree it returns false and changes nothing; and a second commit() right
\* after one that returned returns false and leaves history as it is.
C7_CommitOnlyWhenDirty ==
  [][ CommitStep
      => LET r == commit(cfg, World, last'.f) IN
         /\ last'.ret
              => /\ Porcelain(repo) # {}
                 /\ HeadLog(repo') = Append(HeadLog(repo), [id |-> nextId, tree |-> repo.wt])
         /\ ~last'.ret => repo'.heads = repo.heads
         /\ (Porcelain(repo) = {} /\ last'.kind = "none")
              => ~last'.ret /\ repo' = repo /\ remote' = remote
         /\ last'.kind = "none"
              => \A f2 \in Failures :
                   LET r2 == commit(cfg, [repo |-> repo', remote |-> remote', nextId |-> nextId'], f2)
                   IN /\ r2.err.kind = "none" => ~r2.ret
                      /\ r2.s.repo.heads = repo'.heads ]_vars

C7_Witness ==
  /\ last.op = "commit"
  /\ last.kind = "none"
  /\ last.ret
  /\ ~last.pre.clean
  /\ Porcelain(repo) = {}

WDOrder == <<"prepare", "status", "writePages", "writeSidebar", "commit", "push">>

\* C8: the steps of a writeDocumentation call run in the order prepare, status,
\* write pages, write navigation file, commit, push; push is started only after
\* a commit() that returned true, and a call that is over has pushed exactly
\* when its commit() returned true.
C8_PushIffCommitted ==
  /\ IsPrefix(wd.trace, WDOrder)
  /\ "push" \in SeqToSet(wd.trace) => wd.committed
  /\ pc = "push" => wd.committed /\ Last(wd.trace) = "commit"
  /\ (pc = "idle" /\ wd.result \in {"ok", "failed"})
       => (wd.committed <=> "push" \in SeqToSet(wd.trace))

C8_Witness ==
  /\ pc = "idle"
  /\ wd.result = "ok"
  /\ wd.committed
  /\ wd.trace = WDOrder

\* C9: in fresh mode prepare() on an existing checkout deletes it and then
\* clones; when it returns, status() reports exists and clean.
C9_FreshDeletesThenClones ==
  [][ (PrepareStep /\ cfg.mode = "fresh" /\ repo.exists)
      => LET r == prepare(cfg, World, last'.f)
             after == status(cfg, [repo |-> repo', remote |-> remote', nextId |-> nextId'], NoFail)
         IN /\ r.cmds = <<"rm", "clone">>
            /\ last'.kind = "none"
                 => /\ after.st.exists
                    /\ after.st.clean
                    /\ HeadLog(repo') = remote ]_vars

C9_Witness ==
  /\ cfg.mode = "fresh"
  /\ last.op \in {"prepare", "wd.prepare"}
  /\ last.kind = "none"
  /\ last.pre.exists /\ ~last.pre.clean
  /\ repo.exists /\ Porcelain(repo) = {}

\* C10: with the checkout present, reuse-or-clone prepare() starts no command and
\* changes nothing, and incremental prepare() does what update() does; with the
\* checkout absent both do what clone() does.
C10_PrepareDispatch ==
  [][ (PrepareStep /\ cfg.mode # "fresh")
      => LET r == prepare(cfg, World, last'.f) IN
         /\ [repo |-> repo', remote |-> remote', nextId |-> nextId'] = r.s
         /\ (cfg.mode = "reuse-or-clone" /\ repo.exists)
              => /\ r.cmds = <<>> /\ r.err = NoErr
                 /\ repo' = repo /\ remote' = remote
         /\ (cfg.mode = "incremental" /\ repo.exists)
              => r = update(cfg, World, last'.f)
         /\ ~repo.exists
              => r = clone(cfg, World, last'.f) /\ r.cmds = <<"clone">> ]_vars

C10_Witness ==
  /\ cfg.mode = "reuse-or-clone"
  /\ last.op \in {"prepare", "wd.prepare"}
  /\ last.kind = "none"
  /\ last.pre.exists /\ ~last.pre.clean
  /\ Porcelain(repo) # {}

\* C11: after update() or clone() returns without error, the checkout is on the
\* configured target branch, whatever branch it was on before.
C11_TargetBranchCheckedOut ==
  [][ ( /\ \/ UpdateStep
           \/ PrepareStep /\ (cfg.mode # "reuse-or-clone" \/ ~repo.exists)
        /\ last'.kind = "none" )
      => /\ repo'.exists
         /\ repo'.branch = TargetBranch
         /\ HeadLog(repo') = repo'.heads[TargetBranch] ]_vars

C11_Witness ==
  /\ last.op = "update"
  /\ last.kind = "none"
  /\ last.pre.branch # TargetBranch /\ last.pre.branch \in Branches
  /\ repo.branch = TargetBranch

\* the commits a checkout holds on any of its branches
LocalCommits(l) == UNION {Ids(l.heads[b]) : b \in Branches}

\* the commits the step made: in the checkout afterwards, neither there before
\* nor on the remote
Created == LocalCommits(repo') \ (LocalCommits(repo) \cup Ids(remote) \cup Ids(remote'))

\* a step of the program, direct call or step of writeDocumentation
ProgramStep == last' # last

\* C19: the local history gains a new commit only in a commit() that returns
\* true; every step of writeDocumentation before commit() returns, and a
\* commit() that fails or returns false, leaves the history without a new
\* commit and the remote as it was (uncommitted files may be there); the
\* program changes the remote only in a push that succeeds.
C19_NewCommitOnlyInCommit ==
  [][ /\ (repo'.heads # repo.heads /\ Created # {})
        => /\ CommitStep
           /\ last'.kind = "none"
           /\ last'.ret
           /\ Created = {nextId}
           /\ remote' = remote
      /\ (ProgramStep /\ pc \in {"prepare", "status", "writePages", "writeSidebar"})
        => Created = {} /\ nextId' = nextId /\ remote' = remote
      /\ (CommitStep /\ ~(last'.kind = "none" /\ last'.ret))
        => Created = {} /\ nextId' = nextId /\ remote' = remote
      /\ (ProgramStep /\ remote' # remote)
        => /\ last'.op \in {"push", "wd.push"}
           /\ last'.kind = "none"
           /\ pc = "push" => wd.committed ]_vars

C19_Witness ==
  /\ last.op = "wd.commit"
  /\ last.kind = "none"
  /\ last.ret
  /\ ~last.pre.clean
  /\ pc = "push"
  /\ Len(HeadLog(repo)) > 0
  /\ Last(HeadLog(repo)).id \notin Ids(remote)
  /\ Porcelain(repo) = {}

\* a step that runs status(), called directly or by writeDocumentation
StatusStep ==
  \/ last = NoCall /\ last'.op = "status"
  \/ pc = "status" /\ last'.op = "wd.status"

\* git rev-list origin/<branch>...HEAD finds no tracking ref and fails
NoTrackingRef(f) == f.cmd = "rev-list" \/ ~repo.origin.has

\* C20: status() on an existing checkout without a remote tracking ref for
\* the target branch does not fail and reports ahead = 0 and behind = 0.
C20_NoTrackingRefCountsZero ==
  [][ (StatusStep /\ repo.exists /\ NoTrackingRef(last'.f))
      => LET r == status(cfg, World, last'.f) IN
         /\ r.err = NoErr
         /\ last'.kind = "none"
         /\ r.st.behind = 0
         /\ r.st.ahead = 0 ]_vars

\* C21: no two git processes of the same checkout are in flight at the same
\* time, during any operation of the manager, status() included.
C21_OneGitProcessAtATime == Cardinality(procs.inflight) <= 1

\* files written by a call that failed before commit(): changed in the working
\* tree, not staged
PartialFilesLeft == repo.exists /\ repo.index = HeadTree(repo) /\ repo.wt # repo.index

\* the prepare step of writeDocumentation, no git command failing
WDPrepareStep == pc = "prepare" /\ last'.op = "wd.prepare" /\ last'.f = NoFail

\* C22 as stated: with partial files left by a failed call, the next
\* writeDocumentation is not aborted by them and still has them to warn about
\* after prepare(), in every mode.
C22_PartialFilesWarnedInEveryMode ==
  [][ (WDPrepareStep /\ PartialFilesLeft)
      => /\ last'.kind = "none"
         /\ pc' = "status"
         /\ Porcelain(repo') = Porcelain(repo) ]_vars

\* C22, amended: in reuse-or-clone mode prepare() leaves the partial files,
\* status() reports them, the warning names them and the call goes on to
\* writePages (and, when commit() returns true, to push); in incremental mode
\* the call is aborted by prepare() with the error that lists them; in fresh
\* mode prepare() deletes them with the checkout and nothing is warned about.
C22_PartialFilesWarnedInReuseMode ==
  [][ /\ (WDPrepareStep /\ PartialFilesLeft)
        => CASE cfg.mode = "reuse-or-clone" ->
                  last'.kind = "none" /\ pc' = "status" /\ repo' = repo
             [] cfg.mode = "incremental" ->
                  /\ last'.kind = "BlockedByLocalChanges"
                  /\ pc' = "idle" /\ wd'.result = "failed" /\ repo' = repo
             [] cfg.mode = "fresh" ->
                  last'.kind = "none" => (pc' = "status" /\ Porcelain(repo') = {})
      /\ (pc = "status" /\ last'.op = "wd.status" /\ last'.kind = "none")
        => /\ pc' = "writePages"
           /\ wd'.warned = Porcelain(repo)
           /\ repo' = repo
      /\ (pc = "commit" /\ last'.op = "wd.commit" /\ wd.warned # {}
             /\ last'.kind = "none" /\ last'.ret)
        => pc' = "push" ]_vars

C22_Witness ==
  /\ cfg.mode = "reuse-or-clone"
  /\ pc = "idle"
  /\ wd.result = "ok"
  /\ wd.warned # {}
  /\ wd.trace = WDOrder
  /\ remote = HeadLog(repo)

\* git commit has nothing to commit: the tree is dirty when status() looks,
\* and after git add . the index equals HEAD
NothingToCommit ==
  /\ repo.exists
  /\ Porcelain(repo) # {}
  /\ gitAdd(cfg, World, NoFail).s.repo.index = HeadTree(repo)

\* C23: in commit(), when the tree is dirty at the status check and the commit
\* step reports "nothing to commit", commit() returns false without an error;
\* every other failure of git add or git commit is thrown to the caller.
C23_NothingToCommitSwallowed ==
  [][ CommitStep
      => /\ (NothingToCommit /\ last'.f = NoFail)
              => last'.kind = "none" /\ ~last'.ret
         /\ last'.f.cmd \in {"add", "commit"}
              => last'.kind = "git" ]_vars

\* C28: when writeDocumentation has run its steps and returned without error,
\* no commit of the checkout is waiting to be pushed: status() reports ahead = 0.
C28_NothingUnpushedAfterWrite ==
  (pc = "idle" /\ wd.result = "ok" /\ wd.trace # <<>>)
    => status(cfg, World, NoFail).st.ahead = 0

\* C29: update() on a clean checkout whose HEAD is ahead of the remote
\* tracking ref succeeds without error and leaves the branch at the tracking
\* ref, ahead = 0 and behind = 0: the commits that were not pushed are no
\* longer on the branch.
C29_UpdateDropsUnpushedCommits ==
  [][ ( /\ UpdateStep
        /\ repo.exists
        /\ Porcelain(repo) = {}
        /\ status(cfg, World, NoFail).st.ahead > 0
        /\ last'.f = NoFail )
      => LET after == status(cfg, [repo |-> repo', remote |-> remote', nextId |-> nextId'],
                             NoFail).st
         IN /\ last'.kind = "none"
            /\ repo'.branch = TargetBranch
            /\ HeadLog(repo') = repo'.origin.log
            /\ HeadLog(repo') = remote
            /\ after.ahead = 0 /\ after.behind = 0
            /\ after.clean
            /\ (Ids(HeadLog(repo)) \ Ids(remote)) \cap Ids(HeadLog(repo')) = {} ]_vars

C29_Witness ==
  /\ last.op = "update"
  /\ last.kind = "none"
  /\ last.pre.exists /\ last.pre.clean
  /\ last.pre.ahead > 0
  /\ HeadLog(repo) = remote
  /\ \E id \in 2..(nextId - 1) : id \notin Ids(remote)

(***************************************************************************)
(* Claims about page names                                                 *)
(***************************************************************************)
\* the lines of the navigation file after the Home and Architecture lines
RestOfSidebar ==
  SelectSeq(docs.sidebar,
            LAMBDA n : <<n>> # Find(docs.names, "home")
                         /\ <<n>> # Find(docs.names, "architecture"))

\* C16: the navigation file lists the Home page first and the Architecture page
\* second, when present, then the remaining pages sorted by name, and every
\* page of the set exactly once.
C16_SidebarOrder ==
  docs.stage = "done"
  => LET home == Find(docs.names, "home")
         arch == Find(docs.names, "architecture")
     IN /\ Len(docs.sidebar) = Len(docs.names)
        /\ \A i \in DOMAIN docs.names :
             Cardinality({j \in DOMAIN docs.sidebar : docs.sidebar[j] = docs.names[i]}) = 1
        /\ home # <<>> => docs.sidebar[1] = home[1]
        /\ arch # <<>> => docs.sidebar[Len(home) + 1] = arch[1]
        /\ SubSeq(docs.sidebar, 1, Len(home) + Len(arch)) = home \o arch
        /\ \A i, j \in DOMAIN RestOfSidebar :
             i < j => ~ComesBefore(RestOfSidebar[j], RestOfSidebar[i])

C16_Witness ==
  /\ docs.stage = "done"
  /\ docs.names = << <<"Zebra">>, <<"Home">>, <<"Architecture">> >>
  /\ docs.sidebar = << <<"Home">>, <<"Architecture">>, <<"Zebra">> >>

\* C17: two distinct page names of a run never get the same file.
C17_FilesDistinct ==
  docs.stage \in {"pages", "done"}
  => \A i, j \in DOMAIN docs.names :
       docs.files[i] = docs.files[j] => i = j


(***************************************************************************)
(* Claims about a run                                                      *)
(***************************************************************************)
\* C18: when clone, update (prepare) or push fails inside writeDocumentation,
\* no later step of the call runs, the next thing that happens is the process
\* exiting with status 1, no further page is generated, and after the exit
\* the run touches nothing.
C18_RepositoryFailureAborts ==
  [][ /\ ( /\ last'.op \in {"wd.prepare", "wd.push"}
           /\ last' # last
           /\ last'.kind # "none" )
        => /\ pc' = "idle"
           /\ wd'.result = "failed"
           /\ wd'.trace = Append(wd.trace, pc)
           /\ last'.op = "wd.prepare"
                => /\ wd'.trace = <<"prepare">>
                   /\ [repo |-> repo', remote |-> remote', nextId |-> nextId']
                        = prepare(cfg, World, last'.f).s
      /\ (docs.stage = "persist" /\ wd.result = "failed")
        => /\ docs' = [docs EXCEPT !.stage = "exited", !.exit = 1]
           /\ UNCHANGED <<repo, remote, nextId, pc, wd>>
      /\ docs.stage = "exited"
        => UNCHANGED <<docs, repo, remote, nextId, pc, wd>> ]_vars

C18_Witness ==
  /\ docs.stage = "exited"
  /\ docs.exit = 1
  /\ last.op = "wd.prepare"
  /\ last.kind # "none"
  /\ wd.trace = <<"prepare">>
  /\ 0 < Len(docs.names) /\ Len(docs.names) < Len(docs.raw)

\* C30: in a selective run writeDocumentation is called at most once, after
\* the loop over the areas, and only when at least one area page was
\* regenerated; when none was, the run ends with nothing written, whatever
\* home or architecture page it generated.
C30_SelectiveRunWritesOnce ==
  docs.selectiveRun
    => /\ Len(docs.writes) <= 1
       /\ \A i \in 1..Len(docs.writes) :
            /\ docs.writes[i].at = "final"
            /\ docs.area > Len(docs.areas)
            /\ docs.writes[i].pages = docs.allDocs
       /\ docs.writes # <<>> => docs.updatedPages # <<>>
       /\ (docs.stage = "exited" /\ docs.wikiWriter /\ docs.updatedPages # <<>>)
            => Len(docs.writes) = 1
       /\ docs.updatedPages = <<>> => docs.writes = <<>>

C30_Witness ==
  /\ docs.selectiveRun
  /\ docs.stage = "exited"
  /\ Len(docs.writes) = 1
  /\ docs.writes[1].at = "final"
  /\ Len(docs.updatedPages) = 1
  /\ Len(docs.areas) = 2
  /\ <<"Home">> \in docs.generated


(***************************************************************************)
(* Claims about the outline of an architecture page                        *)
(***************************************************************************)
\* the names of the subsections of a text, in the order of their headings
SectionNames(content) ==
  LET ls == SelectSeq(SplitLines(content), LAMBDA l : IsHeading(l) /\ Hashes(l) = 2)
  IN [i \in 1..Len(ls) |-> HeadingText(ls[i])[1]]

RequiredSections == [i \in 1..Len(SectionRules) |-> SectionRules[i][1]]

\* C24: after outline enforcement each of the six required subsections is
\* there, and they come in the order Summary, Architectural Pattern, Key
\* Directories, Architectural Areas, Component Interactions, Data Flow.
C24_RequiredSectionsInOrder ==
  page.stage = "done"
    => SelectSeq(SectionNames(page.result), LAMBDA h : h \in SeqToSet(RequiredSections))
         = RequiredSections

\* the fenced mermaid blocks of a text, one after the other
RECURSIVE MermaidBlocks(_)
MermaidBlocks(s) ==
  LET m == FencedMermaid(s) IN
  IF m = <<>> THEN <<>>
  ELSE <<SubSeq(s, m[1], m[2])>> \o MermaidBlocks(From(s, m[2] + 1))

\* C25: after outline enforcement there is exactly one Diagram subsection, it
\* is the last subsection, and it holds the only diagram block of the page.
C25_OneTrailingDiagram ==
  page.stage = "done"
    => LET names == SectionNames(page.result)
           blocks == MermaidBlocks(page.result)
           tail == <<NL, NL>> \o Heading(2, <<"Diagram">>) \o <<NL, NL>>
       IN /\ Len(SelectSeq(names, LAMBDA h : h = "Diagram")) = 1
          /\ names[Len(names)] = "Diagram"
          /\ Len(blocks) = 1
          /\ page.result = SubSeq(page.result, 1, Len(page.result) - Len(tail) - Len(blocks[1]))
                             \o tail \o blocks[1]

(***************************************************************************)
(* Claims about the steps of normalization                                 *)
(***************************************************************************)
\* C26: ensureHeading on a text whose first line is a heading of level n with
\* another text than the title gives the level-1 title heading, a blank line
\* and the text with that heading at level n + 1; on a text without a heading
\* it prepends the title heading; on a text whose heading is the title (after
\* trim, whitespace collapse and case-fold) it gives the text as it is.
C26_HeadingDemotedOneLevel ==
  (page.stage = "done" /\ page.kind = "heading")
    => LET trimmed == Trim(page.raw)
           lines == SplitLines(trimmed)
           first == Trim(lines[1])
           titleHeading == Heading(1, page.title)
       IN IF trimmed = <<>> THEN page.result = titleHeading
          ELSE IF ~IsHeading(first)
            THEN page.result = titleHeading \o <<NL, NL>> \o trimmed
          ELSE IF Lower(Collapse(Trim(HeadingText(first)))) = Lower(Collapse(Trim(page.title)))
            THEN page.result = trimmed
          ELSE page.result =
                 Trim(titleHeading \o <<NL, NL>>
                        \o JoinLines([lines EXCEPT
                                        ![1] = Heading(Hashes(first) + 1,
                                                       Trim(HeadingText(first)))]))

\* the number of fences in a text
RECURSIVE FenceCount(_)
FenceCount(s) ==
  IF s = <<>> THEN 0 ELSE (IF Head(s) = FENCE THEN 1 ELSE 0) + FenceCount(Tail(s))

\* the whole text is one fenced block
SingleFencedBlock(s) ==
  /\ Len(s) >= 2
  /\ s[1] = FENCE
  /\ s[Len(s)] = FENCE
  /\ FenceCount(s) = 2

\* C27: stripFenceWrappers unwraps only a response that is one single fenced
\* block: a response with text after the closing fence, or with more than one
\* fenced block, comes out as it would without the unwrap step, none of its
\* text dropped by it.
C27_UnwrapsOnlyWholeBlock ==
  (page.stage = "done" /\ page.kind = "fence" /\ ~SingleFencedBlock(Trim(page.raw)))
    => page.result = stripLeadingCommentary(Trim(page.raw))

(***************************************************************************)
(* Claims about reconciling a page                                         *)
(***************************************************************************)
\* what the generator checks before it accepts a response
Normalized(raw, title) == ensureHeading(stripFenceWrappers(raw), title)

\* the response is blank or nothing but the title heading
StructurallyInvalid(raw, title) ==
  LET t == Trim(raw) IN
  \/ t = <<>>
  \/ /\ Len(SplitLines(t)) = 1
     /\ IsHeading(t)
     /\ Lower(Trim(HeadingText(t))) = Lower(Trim(title))

\* C4: for every page kind, when the generated text is blank or nothing but
\* the title heading and non-blank prior content exists, the prior content is
\* returned verbatim.
C4_InvalidGenerationReusesPrior ==
  ( /\ page.stage = "done"
    /\ StructurallyInvalid(page.raw, page.title)
    /\ Usable(page.existing) )
  => page.result = page.existing.text

\* C5: for every page kind, when the generated text trips the meta-commentary
\* detection and the prior content is non-blank and not meta-commentary, the
\* prior content is returned unchanged.
C5_MetaGenerationReusesPrior ==
  ( /\ page.stage = "done"
    /\ isMetaDescription(Normalized(page.raw, page.title))
    /\ Usable(page.existing)
    /\ ~isMetaDescription(page.existing.text) )
  => page.result = page.existing.text

\* C12: re-applying the pipeline of a page to its own output, with the same
\* title and the same prior page, returns that output unchanged.
C12_ReconcileIdempotent ==
  page.stage = "done"
  => reconcile(page.kind, page.title, page.result, page.existing) = page.result

\* the placeholder page a generator returns when it has nothing to return
PlaceholderOf(kind, title) ==
  CASE kind = "home" -> Placeholder(title, "Unable to generate home page.")
    [] kind = "architecture" ->
         Placeholder(title, "Unable to generate architectural overview.")
    [] kind = "area" ->
         Placeholder(title, "Unable to generate documentation for this area.")

\* the generator returned the response it was given, normalized: not the prior
\* page and not the placeholder
Accepted ==
  /\ page.stage = "done"
  /\ ~(Usable(page.existing) /\ page.result = page.existing.text)
  /\ page.result # PlaceholderOf(page.kind, page.title)

\* C13: every accepted page has at least one non-blank line after its title
\* heading, also when heading and title differ in internal whitespace only.
C13_AcceptedHasBody ==
  Accepted
  => LET lines == SplitLines(Trim(page.result)) IN
     \E i \in 2..Len(lines) : Trim(lines[i]) # <<>>

\* C14: a response that is one fenced block whose first line is the title at a
\* deeper heading level comes out as the level-1 title heading, one blank line,
\* then the body: the fenced "## Auth", "Body text" under title "Auth" gives
\* "# Auth", blank line, "Body text".
C14_FencedDeeperTitleNormalized ==
  \A l \in 2..MaxLevel :
    ( /\ page.stage = "done"
      /\ page.kind \in {"home", "area"}
      /\ page.raw = Fenced(Heading(l, page.title) \o <<NL>> \o ProseLine) )
    => page.result = Heading(1, page.title) \o <<NL, NL>> \o ProseLine

\* C15: when the generated text is invalid (blank, only the title heading, or
\* meta-commentary) and there is no usable prior page, the result is the
\* placeholder page: the title heading and the sentence that generation failed.
C15_InvalidWithoutPriorGivesPlaceholder ==
  ( /\ page.stage = "done"
    /\ \/ StructurallyInvalid(page.raw, page.title)
       \/ isMetaDescription(Normalized(page.raw, page.title))
    /\ ~Usable(page.existing) )
  => page.result = PlaceholderOf(page.kind, page.title)

====
